---------------------------- MODULE Spec2Model ----------------------------
(***************************************************************************)
(* Story Engine of sentra_core (story/engine.py, story/rules.py,           *)
(* story/normalize.py, story/comm_extract.py).                             *)
(*                                                                         *)
(* The document store holds Story documents and Story Event documents.     *)
(* Each invocation of an entry point (update_from_business,                *)
(* update_from_comm) runs in a process that holds its own in-memory copy   *)
(* of the Story; every access to the store is one step, so invocations     *)
(* for the same contact interleave between their reads and writes.         *)
(* Story.save writes the whole document (last write wins).                 *)
(***************************************************************************)
EXTENDS Integers, Sequences, FiniteSets, TLC

(***************************************************************************)
(* Values                                                                  *)
(***************************************************************************)
\* Python None in a string-valued field; str(None) is the string "None".
None == "<None>"

Truthy(v) == v \notin {None, ""}

Str(v) == IF v = None THEN "None" ELSE v

\* Bounds of the model.
MaxTime == 2
MaxCalls == 3

Procs == {"p1", "p2"}
SeqProcs == {"p1"}

Contacts == {"C1", "C2"}

(***************************************************************************)
(* story/rules.py                                                          *)
(***************************************************************************)
Stages ==
    <<"Inquiry", "Discovery", "Proposal", "Negotiation", "Booking",
      "Fulfillment", "Post-trip">>

StageSet == {Stages[i] : i \in 1..Len(Stages)}

STAGE_ORDER_first_four(stage) ==
    IF stage \in {"Inquiry", "Discovery", "Proposal", "Negotiation"}
    THEN (CHOOSE i \in 1..Len(Stages) : Stages[i] = stage) - 1
    ELSE 0

\* STAGE_ORDER.get(stage, 0)
STAGE_ORDER(stage) ==
    IF stage \in StageSet
    THEN (CHOOSE i \in 1..Len(Stages) : Stages[i] = stage) - 1
    ELSE 0

\* x or "Inquiry"
OrInquiry(stage) == IF Truthy(stage) THEN stage ELSE "Inquiry"

trip_ready_any_flex(intent) ==
    /\ Len(intent.destinations) > 0
    /\ \/ (Truthy(intent.dates.start) /\ Truthy(intent.dates.end))
       \/ Truthy(intent.dates.flex)
    /\ intent.pax # <<>> /\ intent.pax[1] > 0

\* trip_ready_for_proposal(intent); intent.pax is <<>> for None, <<n>> else.
trip_ready_for_proposal(intent) ==
    LET has_destination == Len(intent.destinations) > 0
        start == intent.dates.start
        end == intent.dates.end
        flex == intent.dates.flex
        has_dates == \/ (Truthy(start) /\ Truthy(end))
                     \/ (Truthy(flex) /\ Str(flex) # "Exact dates")
        has_pax == intent.pax # <<>> /\ intent.pax[1] # 0 /\ intent.pax[1] > 0
    IN  has_destination /\ has_dates /\ has_pax

TargetStageContactFirst(has_contact, has_itinerary, trip_ready, proposal_sent_flag) ==
    IF proposal_sent_flag THEN "Negotiation"
    ELSE IF has_contact THEN "Discovery"
    ELSE IF has_itinerary \/ trip_ready THEN "Proposal"
    ELSE "Inquiry"

\* The first match of the ordered checks of choose_stage.
TargetStage(has_contact, has_itinerary, trip_ready, proposal_sent_flag) ==
    IF proposal_sent_flag THEN "Negotiation"
    ELSE IF has_itinerary \/ trip_ready THEN "Proposal"
    ELSE IF has_contact THEN "Discovery"
    ELSE "Inquiry"

choose_stage_by_status(current_stage, has_contact, has_itinerary, itinerary_statuses, trip_ready, proposal_sent_flag) ==
    LET approved == \E i \in 1..Len(itinerary_statuses) : itinerary_statuses[i] = "Approved"
        target_stage ==
            TargetStage(has_contact, has_itinerary, trip_ready, proposal_sent_flag \/ approved)
    IN  IF STAGE_ORDER(target_stage) < STAGE_ORDER(OrInquiry(current_stage))
        THEN OrInquiry(current_stage)
        ELSE target_stage

choose_stage_downgrading(current_stage, has_contact, has_itinerary, itinerary_statuses, trip_ready, proposal_sent_flag) ==
    TargetStage(has_contact, has_itinerary, trip_ready, proposal_sent_flag)

choose_stage(current_stage, has_contact, has_itinerary, itinerary_statuses, trip_ready, proposal_sent_flag) ==
    LET target_stage ==
            TargetStage(has_contact, has_itinerary, trip_ready, proposal_sent_flag)
        current_rank == STAGE_ORDER(OrInquiry(current_stage))
        target_rank == STAGE_ORDER(target_stage)
    IN  IF target_rank < current_rank
        THEN OrInquiry(current_stage)
        ELSE target_stage

(***************************************************************************)
(* story/normalize.py                                                      *)
(***************************************************************************)
RECURSIVE NonEmptyDestinations(_)
NonEmptyDestinations(rows) ==
    IF rows = <<>> THEN <<>>
    ELSE IF Truthy(Head(rows))
         THEN <<Head(rows)>> \o NonEmptyDestinations(Tail(rows))
         ELSE NonEmptyDestinations(Tail(rows))

\* intent_from_trip(trip_doc): destination_city is the sequence of the rows'
\* destination values, passenger_details the number of passenger rows.
intent_from_trip(trip_doc) ==
    [destinations |-> NonEmptyDestinations(trip_doc.destination_city),
     dates |-> [start |-> trip_doc.start_date,
                end |-> trip_doc.end_date,
                flex |-> trip_doc.flexible_days],
     pax |-> IF trip_doc.pax = <<>> \/ trip_doc.pax[1] = 0
             THEN <<trip_doc.passenger_details>>
             ELSE trip_doc.pax]

\* key_path.split("."), without the empty parts, for the keys of the model.
KeyParts(key) ==
    CASE key = "proposal.itinerary" -> <<"proposal", "itinerary">>
      [] key = "proposal.sent_at" -> <<"proposal", "sent_at">>
      [] key = "proposal" -> <<"proposal">>
      [] key = "" -> <<>>
      [] OTHER -> <<key>>

IsPrefix(s, t) == Len(s) <= Len(t) /\ SubSeq(t, 1, Len(s)) = s

\* sorted(rows, key=last_seen_at): the row indexes in ascending last_seen_at,
\* rows of equal last_seen_at in row order (the sort is stable).
RECURSIVE SortedFrom(_, _)
SortedFrom(rows, left) ==
    IF left = {} THEN <<>>
    ELSE LET i == CHOOSE j \in left :
                    \A k \in left \ {j} :
                        \/ rows[j].last_seen_at < rows[k].last_seen_at
                        \/ (rows[j].last_seen_at = rows[k].last_seen_at /\ j < k)
         IN  <<i>> \o SortedFrom(rows, left \ {i})

SortedRowsInRowOrder(rows) == [i \in 1..Len(rows) |-> i]

SortedRows(rows) == SortedFrom(rows, 1..Len(rows))

\* The value texts that start with "{": one that json.loads decodes, to the
\* object {"sent_at": "x"}, and one at which it raises, which stays raw
\* (lines 43-48).  An object is the function from its key paths to its leaves.
JsonObjectText == "{\"sent_at\": \"x\"}"
BrokenJsonText == "{sent_at"

Decodes(value_raw) == value_raw = JsonObjectText

json_loads(value_raw) == (<<"sent_at">> :> "x")

\* The nested mapping built by story_facts_to_dict, as the function from the
\* paths of its leaves to their values: assigning a path drops the leaves at
\* and below it (cursor[part] = value) and the leaves that are strict prefixes
\* of it (a non-dict on the way down is replaced by {}).
AssignPath(map, path, value) ==
    LET keep == {q \in DOMAIN map : ~IsPrefix(path, q) /\ ~IsPrefix(q, path)}
    IN  [q \in keep \cup {path} |-> IF q = path THEN value ELSE map[q]]

\* cursor[part] = value for a decoded object: its leaves take the place of
\* what was at, below and above the path.
AssignObject(map, path, object) ==
    LET keep == {q \in DOMAIN map : ~IsPrefix(path, q) /\ ~IsPrefix(q, path)}
    IN  [q \in keep \cup {path \o sub : sub \in DOMAIN object} |->
            IF q \in keep THEN map[q]
            ELSE object[SubSeq(q, Len(path) + 1, Len(q))]]

RECURSIVE FoldFacts(_, _, _)
FoldFacts(rows, order, map) ==
    IF order = <<>> THEN map
    ELSE LET row == rows[Head(order)]
             parts == KeyParts(row.key)
         IN  FoldFacts(rows, Tail(order),
                       IF parts = <<>> THEN map
                       ELSE IF Decodes(row.value)
                       THEN AssignObject(map, parts, json_loads(row.value))
                       ELSE AssignPath(map, parts, row.value))

story_facts_to_dict(story_doc) ==
    FoldFacts(story_doc.facts, SortedRows(story_doc.facts), <<>>)

\* proposal_sent(facts) calls .get on facts["proposal"]: that raises when the
\* value there is a truthy scalar rather than a mapping.
proposal_sent_raises(facts) ==
    <<"proposal">> \in DOMAIN facts /\ Truthy(facts[<<"proposal">>])

proposal_sent(facts) ==
    /\ <<"proposal", "sent_at">> \in DOMAIN facts
    /\ Truthy(facts[<<"proposal", "sent_at">>])


(***************************************************************************)
(* story/comm_extract.py                                                   *)
(***************************************************************************)
\* str(x).lower() == "itinerary", for the doctype spellings of the model.
IsItineraryDoctype(dt) == dt \in {"Itinerary", "itinerary", "ITINERARY"}

\* A text blob is the sequence of its tokens; a token of kind "path" is a
\* match of /app/itinerary/([A-Z0-9\-]+) and carries the group, a token of
\* kind "code" is a match of PCK-dddd-dddd, a token of kind "text" matches
\* neither.  re.search returns the leftmost match.
FirstOfKind(blob, kind) ==
    LET hits == {i \in 1..Len(blob) : blob[i].kind = kind}
    IN  IF hits = {} THEN 0 ELSE CHOOSE i \in hits : \A j \in hits : i <= j

NoRef == [ref |-> None, method |-> None]

RECURSIVE ScanBlobs(_)
ScanBlobs(blobs) ==
    IF blobs = <<>> THEN NoRef
    ELSE LET blob == Head(blobs)
             m == FirstOfKind(blob, "path")
             m2 == FirstOfKind(blob, "code")
         IN  IF m # 0 THEN [ref |-> blob[m].ref, method |-> "content_path"]
             ELSE IF m2 # 0 THEN [ref |-> blob[m2].ref, method |-> "code_pattern"]
             ELSE ScanBlobs(Tail(blobs))

FirstItineraryLink(links) ==
    LET hits == {i \in 1..Len(links) :
                    /\ Truthy(links[i].link_doctype)
                    /\ IsItineraryDoctype(links[i].link_doctype)
                    /\ Truthy(links[i].link_name)}
    IN  IF hits = {} THEN 0 ELSE CHOOSE i \in hits : \A j \in hits : i <= j

extract_links_first(comm) ==
    LET link == FirstItineraryLink(comm.timeline_links)
        text_blobs == (IF comm.content # <<>> THEN <<comm.content>> ELSE <<>>)
                      \o (IF comm.subject # <<>> THEN <<comm.subject>> ELSE <<>>)
    IN  IF link # 0
        THEN [ref |-> comm.timeline_links[link].link_name, method |-> "timeline_link"]
        ELSE IF /\ Truthy(comm.reference_doctype)
                /\ IsItineraryDoctype(comm.reference_doctype)
                /\ Truthy(comm.reference_name)
        THEN [ref |-> comm.reference_name, method |-> "reference_link"]
        ELSE ScanBlobs(text_blobs)

extract_itinerary_ref_from_comm(comm) ==
    LET link == FirstItineraryLink(comm.timeline_links)
        text_blobs == (IF comm.content # <<>> THEN <<comm.content>> ELSE <<>>)
                      \o (IF comm.subject # <<>> THEN <<comm.subject>> ELSE <<>>)
    IN  IF /\ Truthy(comm.reference_doctype)
           /\ IsItineraryDoctype(comm.reference_doctype)
           /\ Truthy(comm.reference_name)
        THEN [ref |-> comm.reference_name, method |-> "reference_link"]
        ELSE IF link # 0
        THEN [ref |-> comm.timeline_links[link].link_name, method |-> "timeline_link"]
        ELSE ScanBlobs(text_blobs)

(***************************************************************************)
(* The records the engine is notified of                                   *)
(***************************************************************************)
\* Calendar dates in ascending order.
Dates ==
    <<"2025-05-01", "2025-05-15", "2025-06-01", "2025-06-05", "2025-06-10",
      "2025-06-15", "2025-06-20">>

DateRank(d) == CHOOSE i \in 1..Len(Dates) : Dates[i] = d

\* The Trip table of the store, in order of creation.
TripTable ==
    <<[doctype |-> "Trip", name |-> "T1", customer |-> "C1",
       destination_city |-> <<"Paris">>, start_date |-> "2025-06-01",
       end_date |-> "2025-06-10", flexible_days |-> None, pax |-> <<2>>,
       passenger_details |-> 0, creation |-> 1],
      [doctype |-> "Trip", name |-> "T2", customer |-> "C1",
       destination_city |-> <<>>, start_date |-> None,
       end_date |-> None, flexible_days |-> "Exact dates", pax |-> <<>>,
       passenger_details |-> 0, creation |-> 2],
      [doctype |-> "Trip", name |-> "T3", customer |-> None,
       destination_city |-> <<"Rome">>, start_date |-> "2025-06-01",
       end_date |-> "2025-06-10", flexible_days |-> None, pax |-> <<1>>,
       passenger_details |-> 0, creation |-> 3],
      [doctype |-> "Trip", name |-> "T4", customer |-> "C2",
       destination_city |-> <<>>, start_date |-> "2025-06-10",
       end_date |-> None, flexible_days |-> None, pax |-> <<0>>,
       passenger_details |-> 2, creation |-> 4],
      [doctype |-> "Trip", name |-> "T5", customer |-> "C2",
       destination_city |-> <<>>, start_date |-> "2025-06-01",
       end_date |-> None, flexible_days |-> None, pax |-> <<>>,
       passenger_details |-> 0, creation |-> 5],
      [doctype |-> "Trip", name |-> "T6", customer |-> "C2",
       destination_city |-> <<>>, start_date |-> "2025-06-15",
       end_date |-> None, flexible_days |-> None, pax |-> <<>>,
       passenger_details |-> 0, creation |-> 6],
      [doctype |-> "Trip", name |-> "T7", customer |-> "C2",
       destination_city |-> <<>>, start_date |-> None,
       end_date |-> None, flexible_days |-> None, pax |-> <<>>,
       passenger_details |-> 0, creation |-> 7]>>

TripNames == {TripTable[i].name : i \in 1..Len(TripTable)}

\* The Trips of a contact.
TripsOf(contact) ==
    {TripTable[i].name : i \in {j \in 1..Len(TripTable) : TripTable[j].customer = contact}}

\* frappe.get_doc("Trip", name)
GetTrip(name) == TripTable[CHOOSE i \in 1..Len(TripTable) : TripTable[i].name = name]

\* The Itinerary documents a change notification can deliver.
ItineraryDocs ==
    {[doctype |-> "Itinerary", name |-> "ITIN-01", trip |-> "T2", status |-> st,
      valid_from |-> "2025-06-01", valid_to |-> "2025-06-10", creation |-> 1]
        : st \in {"Draft", "Approved"}}
    \cup
    {[doctype |-> "Itinerary", name |-> "ITIN-02", trip |-> None, status |-> "Draft",
      valid_from |-> None, valid_to |-> None, creation |-> 2],
     [doctype |-> "Itinerary", name |-> "ITIN-03", trip |-> "T3", status |-> "Draft",
      valid_from |-> None, valid_to |-> None, creation |-> 3],
     [doctype |-> "Itinerary", name |-> "ITIN-04", trip |-> "T4", status |-> "Draft",
      valid_from |-> "2025-06-10", valid_to |-> None, creation |-> 4]}
    \cup
    {[doctype |-> "Itinerary", name |-> "ITIN-05", trip |-> "T1", status |-> st,
      valid_from |-> "2025-06-01", valid_to |-> vt, creation |-> 5]
        : st \in {"Draft", "Sent"}, vt \in {None, "2025-06-10"}}

Comm(name, reference_doctype, reference_name, links, content, direction, phone_no) ==
    [doctype |-> "Communication", name |-> name,
     reference_doctype |-> reference_doctype, reference_name |-> reference_name,
     timeline_links |-> links, content |-> content, subject |-> <<>>,
     sent_or_received |-> direction, phone_no |-> phone_no,
     creation |-> "2025-06-02 10:00:00"]

ItinLink(name) == <<[link_doctype |-> "Itinerary", link_name |-> name]>>

\* The Communication documents a creation notification can deliver.
CommDocs ==
    {Comm("COMM-1", "Contact", "C1", ItinLink("ITIN-01"), <<>>, "Sent", None),
     Comm("COMM-2", "Contact", "C1", <<>>, <<>>, "Received", None),
     Comm("COMM-3", "Itinerary", "ITIN-02", <<>>, <<>>, "Sent", "+100"),
     Comm("COMM-4", "Contact", "C1", <<>>, <<[kind |-> "text", ref |-> None]>>, "Sent", None),
     Comm("COMM-5", "Contact", "C1", ItinLink("ITIN-01"), <<>>, "", None),
     Comm("COMM-6", None, None, <<>>, <<>>, "Received", None),
     Comm("COMM-7", "Contact", "C2", <<>>, <<>>, "Received", None),
     Comm("COMM-8", "Contact", "C1",
          <<>>, <<[kind |-> "code", ref |-> "PCK-0001-0002"]>>, "Sent", None)}

NoDoc == [doctype |-> "none", name |-> None]

(***************************************************************************)
(* State                                                                   *)
(***************************************************************************)
VARIABLES
    stories,    \* the Story documents of the store; a Story's name is its index
    events,     \* the Story Event documents of the store, in insertion order
    itins,      \* the Itinerary documents of the store
    now,        \* the clock read by now_datetime()
    today,      \* the date read by nowdate()
    commSingle, \* whether frappe.get_doc("Communication") finds a document
    l,          \* per process: the invocation's position and local variables
    writer,     \* the process whose step wrote to the store last, or "none"
    calls,      \* the number of invocations started
    inbox       \* the change notifications of a run: all of them, and those to do

vars == <<stories, events, itins, now, today, commSingle, l, writer, calls, inbox>>

\* What no step of an invocation changes.
env == <<now, today, commSingle, inbox>>

NoInbox == [all |-> {}, todo |-> {}]

NoStory == [name |-> 0]

IdleLocal ==
    [pc |-> "idle", kind |-> "none", doc |-> NoDoc, contact |-> None,
     story |-> NoStory, inmps |-> FALSE, old_stage |-> None,
     conflict |-> FALSE, created |-> FALSE, repeat |-> FALSE,
     failed |-> FALSE, entry |-> <<>>]

(***************************************************************************)
(* The document store                                                      *)
(***************************************************************************)
StoryNameOfAny(contact_name) == IF stories = <<>> THEN 0 ELSE 1

\* frappe.db.get_value("Story", {"contact": contact_name}): a name or 0.
StoryNameOf(contact_name) ==
    LET hits == {i \in 1..Len(stories) : stories[i].contact = contact_name}
    IN  IF hits = {} THEN 0 ELSE CHOOSE i \in hits : \A j \in hits : i <= j

InsertConflictsNever(contact_name) == FALSE

\* Story.contact is unique: an insert for a contact that has a Story is
\* rejected by the store.
InsertConflicts(contact_name) == StoryNameOf(contact_name) # 0

SaveStoryLost(story) == stories

\* story.save(): the whole document replaces the stored one.
SaveStory(story) == [stories EXCEPT ![story.name] = story]

\* frappe.get_all("Itinerary", filters={"trip": trip_name}, order_by="creation asc")
RECURSIVE ByCreation(_)
ByCreation(docs) ==
    IF docs = {} THEN <<>>
    ELSE LET d == CHOOSE x \in docs : \A y \in docs : x.creation <= y.creation
         IN  <<d>> \o ByCreation(docs \ {d})

_itineraries_for_trip_approved(trip_name) ==
    ByCreation({i \in itins : i.trip = trip_name /\ i.status = "Approved"})

_itineraries_for_trip(trip_name) == ByCreation({i \in itins : i.trip = trip_name})

(***************************************************************************)
(* story/engine.py                                                         *)
(***************************************************************************)
NewStoryAtDiscovery(contact_name, name) ==
    [name |-> name, contact |-> contact_name, stage |-> "Discovery",
     story_version |-> 0, primary_trip |-> None, last_built_at |-> now,
     last_touch_from |-> "system", last_touch_reason |-> "ensure_story",
     facts |-> <<>>, itineraries |-> <<>>]

\* The document ensure_story inserts.
NewStory(contact_name, name) ==
    [name |-> name, contact |-> contact_name, stage |-> "Inquiry",
     story_version |-> 1, primary_trip |-> None, last_built_at |-> now,
     last_touch_from |-> "system", last_touch_reason |-> "ensure_story",
     facts |-> <<>>, itineraries |-> <<>>]

_serialize_value(value) == IF value = None THEN "" ELSE Str(value)

FirstRow(rows, field, value) ==
    LET hits == {i \in 1..Len(rows) : rows[i][field] = value}
    IN  IF hits = {} THEN 0 ELSE CHOOSE i \in hits : \A j \in hits : i <= j

upsert_fact_appending(story, key, value, source_doctype, source_name, precedence) ==
    [story EXCEPT !.facts =
        Append(@, [key |-> key, value |-> _serialize_value(value),
                   precedence |-> precedence, source_doc_type |-> source_doctype,
                   source_doc |-> source_name, last_seen_at |-> now])]

\* upsert_fact, up to its story.save().
upsert_fact(story, key, value, source_doctype, source_name, precedence) ==
    LET existing == FirstRow(story.facts, "key", key)
        row == [key |-> key, value |-> _serialize_value(value),
                precedence |-> precedence, source_doc_type |-> source_doctype,
                source_doc |-> source_name, last_seen_at |-> now]
    IN  IF existing # 0
        THEN [story EXCEPT
                !.facts[existing].value = _serialize_value(value),
                !.facts[existing].precedence = precedence,
                !.facts[existing].source_doc_type =
                    IF Truthy(source_doctype) /\ Truthy(source_name)
                    THEN source_doctype ELSE @,
                !.facts[existing].source_doc =
                    IF Truthy(source_doctype) /\ Truthy(source_name)
                    THEN source_name ELSE @,
                !.facts[existing].last_seen_at = now]
        ELSE [story EXCEPT !.facts = Append(@, row)]

\* The document append_event inserts.
NewEvent(story, event_type, source_doctype, source_name, diff, actor) ==
    [contact |-> story.contact, event_type |-> event_type,
     source_doctype |-> source_doctype, source_ref |-> source_name,
     diff |-> diff, actor |-> actor, created_at |-> now]

InsertEventOverLast(event) ==
    IF events = <<>> THEN <<event>> ELSE [events EXCEPT ![Len(events)] = event]

\* append_event, line 96: event.insert adds the document to the store.
InsertEvent(event) == Append(events, event)

RefreshSnapshotAppending(story, itinerary) ==
    [story EXCEPT !.itineraries =
        Append(@, [itinerary |-> itinerary.name, status |-> itinerary.status,
                   valid_from |-> itinerary.valid_from,
                   valid_to |-> itinerary.valid_to])]

\* The snapshot rows of the Story after the refresh of update_from_business.
RefreshSnapshot(story, itinerary) ==
    LET at == FirstRow(story.itineraries, "itinerary", itinerary.name)
        row == [itinerary |-> itinerary.name, status |-> itinerary.status,
                valid_from |-> itinerary.valid_from, valid_to |-> itinerary.valid_to]
    IN  IF at # 0
        THEN [story EXCEPT !.itineraries[at] = row]
        ELSE [story EXCEPT !.itineraries = Append(@, row)]

_choose_primary_trip_latest_created(contact) ==
    LET mine == {i \in 1..Len(TripTable) : TripTable[i].customer = contact}
        future == {i \in mine : /\ Truthy(TripTable[i].start_date)
                                /\ DateRank(TripTable[i].start_date) >= DateRank(today)}
        pool == IF future # {} THEN future ELSE mine
    IN  IF mine = {} THEN None
        ELSE TripTable[CHOOSE i \in pool :
                        \A j \in pool : TripTable[i].creation >= TripTable[j].creation].name

\* _choose_primary_trip_for_contact: the Trips of the contact, most recently
\* created first; the nearest start date that is today or later wins (the sort
\* is stable), else the most recently created Trip.
_choose_primary_trip_for_contact(contact) ==
    LET mine == {i \in 1..Len(TripTable) : TripTable[i].customer = contact}
        future == {i \in mine : /\ Truthy(TripTable[i].start_date)
                                /\ DateRank(TripTable[i].start_date) >= DateRank(today)}
        first == CHOOSE i \in future : \A j \in future \ {i} :
                    \/ DateRank(TripTable[i].start_date) < DateRank(TripTable[j].start_date)
                    \/ /\ TripTable[i].start_date = TripTable[j].start_date
                       /\ TripTable[i].creation > TripTable[j].creation
        latest == CHOOSE i \in mine : \A j \in mine : TripTable[i].creation >= TripTable[j].creation
    IN  IF mine = {} THEN None
        ELSE IF future # {} THEN TripTable[first].name
        ELSE TripTable[latest].name

Statuses(docs) == [i \in 1..Len(docs) |-> docs[i].status]

RECURSIVE TruthyStatuses(_)
TruthyStatuses(rows) ==
    IF rows = <<>> THEN <<>>
    ELSE IF Truthy(Head(rows).status)
         THEN <<Head(rows).status>> \o TruthyStatuses(Tail(rows))
         ELSE TruthyStatuses(Tail(rows))

TripReady(trip_name) == trip_ready_for_proposal(intent_from_trip(GetTrip(trip_name)))

\* The arguments with which an invocation calls choose_and_update_stage.
StageCall(has_itinerary, itinerary_statuses, trip_ready, proposal_sent_flag, mutation_reason, source_doctype, source_name, event_type) ==
    [has_contact |-> TRUE, has_itinerary |-> has_itinerary,
     itinerary_statuses |-> itinerary_statuses, trip_ready |-> trip_ready,
     proposal_sent_flag |-> proposal_sent_flag, mutation_reason |-> mutation_reason,
     source_doctype |-> source_doctype, source_name |-> source_name,
     event_type |-> event_type]

TripStageCallUnready(lp) ==
    LET found == _itineraries_for_trip(lp.doc.name)
    IN  StageCall(found # <<>>, Statuses(found), FALSE,
                  proposal_sent(story_facts_to_dict(lp.story)),
                  "trip_updated", "Trip", lp.doc.name, "business_object_updated")

\* update_from_business, Trip branch.
TripStageCall(lp) ==
    LET found == _itineraries_for_trip(lp.doc.name)
    IN  StageCall(found # <<>>, Statuses(found),
                  trip_ready_for_proposal(intent_from_trip(lp.doc)),
                  proposal_sent(story_facts_to_dict(lp.story)),
                  "trip_updated", "Trip", lp.doc.name, "business_object_updated")

\* update_from_business, Itinerary branch.
ItineraryStageCall(lp) ==
    LET found == _itineraries_for_trip(lp.doc.trip)
    IN  StageCall(found # <<>>, Statuses(found), TripReady(lp.doc.trip),
                  proposal_sent(story_facts_to_dict(lp.story)),
                  "itinerary_updated", "Itinerary", lp.doc.name,
                  "business_object_updated")

ReceivedStageCallAnyTrip(lp) ==
    LET found == ByCreation({i \in itins : Truthy(i.trip) /\ GetTrip(i.trip).customer = lp.contact})
    IN  StageCall(found # <<>>, Statuses(found),
                  \E t \in TripsOf(lp.contact) : TripReady(t),
                  proposal_sent(story_facts_to_dict(lp.story)),
                  "inbound_message", "Communication", lp.doc.name,
                  "communication_created")

\* update_from_comm, Received branch.
ReceivedStageCall(lp) ==
    LET primary == lp.story.primary_trip
        found == IF Truthy(primary) THEN _itineraries_for_trip(primary) ELSE <<>>
    IN  StageCall(found # <<>>, Statuses(found),
                  IF Truthy(primary) THEN TripReady(primary) ELSE FALSE,
                  proposal_sent(story_facts_to_dict(lp.story)),
                  "inbound_message", "Communication", lp.doc.name,
                  "communication_created")

ProposalStageCallUnsent(lp) ==
    LET primary == lp.story.primary_trip
    IN  StageCall(lp.story.itineraries # <<>>, TruthyStatuses(lp.story.itineraries),
                  IF Truthy(primary) THEN TripReady(primary) ELSE FALSE,
                  FALSE, "first_itinerary_sent", "Communication", lp.doc.name,
                  "business_object_updated")

\* mark_proposal_sent, after its two upsert_fact calls.
ProposalStageCall(lp) ==
    LET primary == lp.story.primary_trip
    IN  StageCall(lp.story.itineraries # <<>>, TruthyStatuses(lp.story.itineraries),
                  IF Truthy(primary) THEN TripReady(primary) ELSE FALSE,
                  TRUE, "first_itinerary_sent", "Communication", lp.doc.name,
                  "business_object_updated")

\* A call of choose_and_update_stage with the arguments the record carries.
DirectStageCall(lp) ==
    [has_contact |-> lp.doc.has_contact, has_itinerary |-> lp.doc.has_itinerary,
     itinerary_statuses |-> lp.doc.itinerary_statuses, trip_ready |-> lp.doc.trip_ready,
     proposal_sent_flag |-> lp.doc.proposal_sent_flag,
     mutation_reason |-> lp.doc.mutation_reason,
     source_doctype |-> None, source_name |-> None,
     event_type |-> "business_object_updated"]

CurrentStageCall(lp) ==
    CASE lp.kind = "trip" -> TripStageCall(lp)
      [] lp.kind = "itinerary" -> ItineraryStageCall(lp)
      [] lp.kind = "comm" /\ lp.inmps -> ProposalStageCall(lp)
      [] lp.kind = "comm" /\ ~lp.inmps -> ReceivedStageCall(lp)
      [] OTHER -> DirectStageCall(lp)

\* The facts are flattened before the call; proposal_sent may raise there.
StageCallRaises(lp) ==
    /\ ~(lp.kind = "comm" /\ lp.inmps)
    /\ lp.kind # "direct"
    /\ proposal_sent_raises(story_facts_to_dict(lp.story))

NewStageFromTarget(story, args) ==
    TargetStage(args.has_contact, args.has_itinerary, args.trip_ready,
                args.proposal_sent_flag)

\* choose_and_update_stage, lines 112-115.
NewStage(story, args) ==
    choose_stage(OrInquiry(story.stage), args.has_contact, args.has_itinerary,
                 args.itinerary_statuses, args.trip_ready, args.proposal_sent_flag)

StageChangesAlways(story, args) == TRUE

\* choose_and_update_stage, line 116.
StageChanges(story, args) == NewStage(story, args) # OrInquiry(story.stage)

WithNewStageTwoVersions(story, args) ==
    [story EXCEPT !.stage = NewStage(story, args),
                  !.story_version = @ + 2,
                  !.last_built_at = now,
                  !.last_touch_from = "system",
                  !.last_touch_reason = args.mutation_reason]

WithNewStageSameVersion(story, args) ==
    [story EXCEPT !.stage = NewStage(story, args),
                  !.last_built_at = now,
                  !.last_touch_from = "system",
                  !.last_touch_reason = args.mutation_reason]

\* choose_and_update_stage, lines 117-121.
WithNewStage(story, args) ==
    [story EXCEPT !.stage = NewStage(story, args),
                  !.story_version = @ + 1,
                  !.last_built_at = now,
                  !.last_touch_from = "system",
                  !.last_touch_reason = args.mutation_reason]

(***************************************************************************)
(* Entry points: update_from_business, update_from_comm                    *)
(***************************************************************************)
\* WhatsAppCommunication.get_or_create_contact_from_phone(phone_no); the
\* import or the lookup failing yields None.
ContactFromPhone(phone_no) == IF phone_no = "+100" THEN "C1" ELSE None

\* update_from_comm, lines 299-311: the contact of a Communication.
ResolveContact(comm) ==
    IF comm.reference_doctype = "Contact" /\ Truthy(comm.reference_name)
    THEN comm.reference_name
    ELSE IF Truthy(comm.phone_no) THEN ContactFromPhone(comm.phone_no)
    ELSE None

\* update_from_comm, line 302: frappe.get_doc("Communication") is evaluated
\* when the reference fields give no contact, and raises when the store has
\* no such document.
ResolveRaises(comm) ==
    /\ ~(comm.reference_doctype = "Contact" /\ Truthy(comm.reference_name))
    /\ ~commSingle

AfterContactSentOnly(lp) ==
    IF ~Truthy(lp.contact) THEN [lp EXCEPT !.pc = "done"]
    ELSE IF lp.kind = "comm" /\ lp.doc.sent_or_received # "Sent"
    THEN [lp EXCEPT !.pc = "done"]
    ELSE [lp EXCEPT !.pc = "ensure"]

\* The entry points once the contact is known: return when there is none,
\* else ensure_story (lines 206-208, 247-249, 313-316).
AfterContact(lp) ==
    IF ~Truthy(lp.contact)
    THEN [lp EXCEPT !.pc = "done"]
    ELSE [lp EXCEPT !.pc = "ensure"]

AfterEnsureOtherAsReceived(lp) ==
    CASE lp.inmps -> [lp EXCEPT !.pc = "fact1"]
      [] ~lp.inmps /\ lp.kind = "trip" -> [lp EXCEPT !.pc = "primary"]
      [] ~lp.inmps /\ lp.kind = "itinerary" -> [lp EXCEPT !.pc = "snapshot"]
      [] ~lp.inmps /\ lp.kind = "comm" /\ Str(lp.doc.sent_or_received) = "Sent" ->
            IF /\ Truthy(extract_itinerary_ref_from_comm(lp.doc).ref)
               /\ ~proposal_sent(story_facts_to_dict(lp.story))
            THEN [lp EXCEPT !.pc = "ensure", !.inmps = TRUE]
            ELSE [lp EXCEPT !.pc = "done"]
      [] OTHER -> [lp EXCEPT !.pc = "stage"]

AfterEnsureResending(lp) ==
    IF ~lp.inmps /\ lp.kind = "comm" /\ Str(lp.doc.sent_or_received) = "Sent"
    THEN IF Truthy(extract_itinerary_ref_from_comm(lp.doc).ref)
         THEN [lp EXCEPT !.pc = "ensure", !.inmps = TRUE]
         ELSE [lp EXCEPT !.pc = "done"]
    ELSE CASE lp.inmps -> [lp EXCEPT !.pc = "fact1"]
           [] ~lp.inmps /\ lp.kind = "trip" -> [lp EXCEPT !.pc = "primary"]
           [] ~lp.inmps /\ lp.kind = "itinerary" -> [lp EXCEPT !.pc = "snapshot"]
           [] ~lp.inmps /\ lp.kind = "comm" /\ Str(lp.doc.sent_or_received) = "Received" ->
                [lp EXCEPT !.pc = "stage"]
           [] OTHER -> [lp EXCEPT !.pc = "done"]

\* What the caller of ensure_story does with the Story it returned.
AfterEnsure(lp) ==
    CASE lp.inmps -> [lp EXCEPT !.pc = "fact1"]
      [] ~lp.inmps /\ lp.kind = "trip" -> [lp EXCEPT !.pc = "primary"]
      [] ~lp.inmps /\ lp.kind = "itinerary" -> [lp EXCEPT !.pc = "snapshot"]
      [] ~lp.inmps /\ lp.kind = "comm" /\ Str(lp.doc.sent_or_received) = "Sent" ->
            LET itinerary_name == extract_itinerary_ref_from_comm(lp.doc).ref
                facts == story_facts_to_dict(lp.story)
            IN  IF proposal_sent_raises(facts) THEN [lp EXCEPT !.pc = "raised"]
                ELSE IF Truthy(itinerary_name) /\ ~proposal_sent(facts)
                THEN [lp EXCEPT !.pc = "ensure", !.inmps = TRUE]
                ELSE [lp EXCEPT !.pc = "done"]
      [] ~lp.inmps /\ lp.kind = "comm" /\ Str(lp.doc.sent_or_received) = "Received" ->
            [lp EXCEPT !.pc = "stage"]
      [] OTHER -> [lp EXCEPT !.pc = "done"]

AfterInsertConflictRefetch(lp) ==
    AfterEnsure([lp EXCEPT !.conflict = TRUE,
                           !.story = stories[StoryNameOf(lp.contact)]])

\* ensure_story, line 28: the insert's uniqueness error is not caught, and no
\* entry point catches it either.
AfterInsertConflict(lp) == [lp EXCEPT !.pc = "raised", !.conflict = TRUE]

\* An invocation starts when the process is idle; the invocations of a run
\* that bounds them are counted.
Begin(p, counted) ==
    /\ l[p].pc = "idle"
    /\ IF counted
       THEN calls < MaxCalls /\ calls' = calls + 1
       ELSE calls' = calls

\* update_from_business, lines 203-207 and 239-248, and update_from_comm,
\* lines 296-314: the invocation up to its first access to the Story.
Enter(kind, doc, repeat) ==
    LET contact ==
            CASE kind = "trip" -> doc.customer
              [] kind = "itinerary" ->
                    IF Truthy(doc.trip) THEN GetTrip(doc.trip).customer ELSE None
              [] OTHER -> ResolveContact(doc)
        lp == [IdleLocal EXCEPT !.kind = kind, !.doc = doc, !.contact = contact,
                                !.repeat = repeat]
    IN  IF kind = "comm" /\ ResolveRaises(doc)
        THEN [lp EXCEPT !.pc = "raised", !.contact = None]
        ELSE AfterContact(lp)

StartTrip(p, counted, names) ==
    \E name \in names :
        /\ Begin(p, counted)
        /\ l' = [l EXCEPT ![p] = Enter("trip", GetTrip(name), FALSE)]
        /\ writer' = "none"
        /\ UNCHANGED <<stories, events, itins, env>>

\* The notification follows the write of the Itinerary to the store.
StartItinerary(p, counted, docs) ==
    \E itinerary \in docs :
        /\ Begin(p, counted)
        /\ itins' = {i \in itins : i.name # itinerary.name} \cup {itinerary}
        /\ l' = [l EXCEPT ![p] = Enter("itinerary", itinerary, FALSE)]
        /\ writer' = "none"
        /\ UNCHANGED <<stories, events, env>>

StartComm(p, counted, docs) ==
    \E comm \in docs :
        /\ Begin(p, counted)
        /\ l' = [l EXCEPT ![p] = Enter("comm", comm, FALSE)]
        /\ writer' = "none"
        /\ UNCHANGED <<stories, events, itins, env>>

\* The notification of an invocation that returned is processed once more.
Again(p) ==
    /\ l[p].pc = "done"
    /\ l[p].kind \in {"trip", "itinerary", "comm"}
    /\ l' = [l EXCEPT ![p] = Enter(l[p].kind, l[p].doc, TRUE)]
    /\ writer' = "none"
    /\ UNCHANGED <<stories, events, itins, env, calls>>

\* ensure_story, lines 15-17.
Ensure(p) ==
    LET lp == l[p]
        story_name == StoryNameOf(lp.contact)
    IN  /\ lp.pc = "ensure"
        /\ l' = [l EXCEPT ![p] =
                    IF story_name # 0
                    THEN AfterEnsure([lp EXCEPT !.story = stories[story_name]])
                    ELSE [lp EXCEPT !.pc = "insert"]]
        /\ writer' = "none"
        /\ UNCHANGED <<stories, events, itins, env, calls>>

\* ensure_story, lines 19-29.
Insert(p) ==
    LET lp == l[p]
        story == NewStory(lp.contact, Len(stories) + 1)
    IN  /\ lp.pc = "insert"
        /\ IF InsertConflicts(lp.contact)
           THEN /\ l' = [l EXCEPT ![p] = AfterInsertConflict(lp)]
                /\ writer' = "none"
                /\ UNCHANGED stories
           ELSE /\ stories' = Append(stories, story)
                /\ l' = [l EXCEPT ![p] =
                            AfterEnsure([lp EXCEPT !.story = story, !.created = TRUE])]
                /\ writer' = p
        /\ UNCHANGED <<events, itins, env, calls>>

\* update_from_business(trip), lines 210-214.
Primary(p) ==
    LET lp == l[p]
        new_primary == _choose_primary_trip_for_contact(lp.contact)
        story == [lp.story EXCEPT !.primary_trip = new_primary]
    IN  /\ lp.pc = "primary"
        /\ IF Truthy(new_primary) /\ lp.story.primary_trip # new_primary
           THEN /\ stories' = SaveStory(story)
                /\ l' = [l EXCEPT ![p] = [lp EXCEPT !.story = story, !.pc = "stage"]]
                /\ writer' = p
           ELSE /\ l' = [l EXCEPT ![p] = [lp EXCEPT !.pc = "stage"]]
                /\ writer' = "none"
                /\ UNCHANGED stories
        /\ UNCHANGED <<events, itins, env, calls>>

\* update_from_business(itinerary), lines 251-270.
Snapshot(p) ==
    LET lp == l[p]
        story == RefreshSnapshot(lp.story, lp.doc)
    IN  /\ lp.pc = "snapshot"
        /\ stories' = SaveStory(story)
        /\ l' = [l EXCEPT ![p] = [lp EXCEPT !.story = story, !.pc = "stage"]]
        /\ writer' = p
        /\ UNCHANGED <<events, itins, env, calls>>

\* mark_proposal_sent, lines 144-150.
Fact1(p) ==
    LET lp == l[p]
        story == upsert_fact(lp.story, "proposal.itinerary",
                             extract_itinerary_ref_from_comm(lp.doc).ref,
                             "Communication", lp.doc.name, "business_object")
    IN  /\ lp.pc = "fact1"
        /\ stories' = SaveStory(story)
        /\ l' = [l EXCEPT ![p] = [lp EXCEPT !.story = story, !.pc = "fact2"]]
        /\ writer' = p
        /\ UNCHANGED <<events, itins, env, calls>>

\* mark_proposal_sent, lines 151-157.
Fact2(p) ==
    LET lp == l[p]
        story == upsert_fact(lp.story, "proposal.sent_at", Str(lp.doc.creation),
                             "Communication", lp.doc.name, "business_object")
    IN  /\ lp.pc = "fact2"
        /\ stories' = SaveStory(story)
        /\ l' = [l EXCEPT ![p] = [lp EXCEPT !.story = story, !.pc = "stage"]]
        /\ writer' = p
        /\ UNCHANGED <<events, itins, env, calls>>

\* choose_and_update_stage, lines 112-122, with the caller's computation of
\* its arguments.
Stage(p) ==
    LET lp == l[p]
        args == CurrentStageCall(lp)
        story == WithNewStage(lp.story, args)
    IN  /\ lp.pc = "stage"
        /\ IF StageCallRaises(lp)
           THEN /\ l' = [l EXCEPT ![p] = [lp EXCEPT !.pc = "raised"]]
                /\ writer' = "none"
                /\ UNCHANGED stories
           ELSE IF StageChanges(lp.story, args)
           THEN /\ stories' = SaveStory(story)
                /\ l' = [l EXCEPT ![p] =
                            [lp EXCEPT !.story = story, !.pc = "event",
                                       !.old_stage = OrInquiry(lp.story.stage)]]
                /\ writer' = p
           ELSE /\ l' = [l EXCEPT ![p] = [lp EXCEPT !.pc = "done"]]
                /\ writer' = "none"
                /\ UNCHANGED stories
        /\ UNCHANGED <<events, itins, env, calls>>

\* choose_and_update_stage, lines 123-130: append_event.
Event(p) ==
    LET lp == l[p]
        args == CurrentStageCall(lp)
    IN  /\ lp.pc = "event"
        /\ events' = InsertEvent(
                NewEvent(lp.story, args.event_type, args.source_doctype,
                         args.source_name,
                         [from |-> lp.old_stage, to |-> lp.story.stage], "system"))
        /\ l' = [l EXCEPT ![p] = [lp EXCEPT !.pc = "done"]]
        /\ writer' = p
        /\ UNCHANGED <<stories, itins, env, calls>>

\* The entry point returns, or its exception reaches the caller.
Return(p) ==
    /\ l[p].pc \in {"done", "raised"}
    /\ l' = [l EXCEPT ![p] = IdleLocal]
    /\ writer' = "none"
    /\ UNCHANGED <<stories, events, itins, env, calls>>

\* Time passes.
Tick ==
    /\ now < MaxTime
    /\ now' = now + 1
    /\ writer' = "none"
    /\ UNCHANGED <<stories, events, itins, today, commSingle, l, calls, inbox>>

\* The date read by nowdate() moves on to the next day of the calendar.
NextDay ==
    /\ DateRank(today) < Len(Dates)
    /\ today' = Dates[DateRank(today) + 1]
    /\ writer' = "none"
    /\ UNCHANGED <<stories, events, itins, now, commSingle, l, calls, inbox>>

(***************************************************************************)
(* Specifications                                                          *)
(***************************************************************************)
InitProcs ==
    /\ now = 0
    /\ l = [p \in Procs |-> IdleLocal]
    /\ writer = "none"
    /\ calls = 0
    /\ inbox = NoInbox

InitEmpty ==
    /\ InitProcs
    /\ stories = <<>>
    /\ events = <<>>
    /\ itins = {}

\* The records of contact C1 that a run of overlapping invocations delivers.
ConcTrips == {"T1", "T2"}
ConcItineraries == {i \in ItineraryDocs : i.name = "ITIN-01" /\ i.status = "Draft"}
ConcComms == {c \in CommDocs : c.name \in {"COMM-1", "COMM-2", "COMM-5"}}

Init ==
    /\ InitEmpty
    /\ today = "2025-05-15"
    /\ commSingle = FALSE

\* Invocations of the entry points, interleaved at their store accesses.
Next ==
    \E p \in Procs :
        \/ StartTrip(p, TRUE, ConcTrips)
        \/ StartItinerary(p, TRUE, ConcItineraries)
        \/ StartComm(p, TRUE, ConcComms)
        \/ Ensure(p)
        \/ Insert(p)
        \/ Primary(p)
        \/ Snapshot(p)
        \/ Fact1(p)
        \/ Fact2(p)
        \/ Stage(p)
        \/ Event(p)
        \/ Return(p)

Spec == Init /\ [][Next]_vars

\* The records of contact C1 and the records without a contact.
SeqItineraries == {i \in ItineraryDocs : i.name \notin {"ITIN-04", "ITIN-05"}}
SeqComms == {c \in CommDocs : c.name # "COMM-7"}

SeqInit ==
    /\ InitEmpty
    /\ today \in {"2025-05-15", "2025-06-05"}
    /\ commSingle \in BOOLEAN

\* Invocations of the entry points, one at a time, each notification
\* processed once or twice.
SeqNext ==
    \E p \in SeqProcs :
        \/ StartTrip(p, FALSE, TripNames \ TripsOf("C2"))
        \/ StartItinerary(p, FALSE, SeqItineraries)
        \/ StartComm(p, FALSE, SeqComms)
        \/ Again(p)
        \/ Ensure(p)
        \/ Insert(p)
        \/ Primary(p)
        \/ Snapshot(p)
        \/ Fact1(p)
        \/ Fact2(p)
        \/ Stage(p)
        \/ Event(p)
        \/ Return(p)

SeqSpec == SeqInit /\ [][SeqNext]_vars

(***************************************************************************)
(* Calls of choose_and_update_stage with arbitrary arguments                *)
(***************************************************************************)
DirectDocs ==
    [doctype : {"direct"}, name : {None}, has_contact : BOOLEAN,
     has_itinerary : BOOLEAN, itinerary_statuses : {<<>>, <<"Draft">>},
     trip_ready : BOOLEAN, proposal_sent_flag : BOOLEAN,
     mutation_reason : {"trip_updated", "inbound_message"}]

\* choose_and_update_stage(story, ...) on the Story of a contact.
StartDirect(p) ==
    \E doc \in DirectDocs, contact \in Contacts :
        /\ Begin(p, FALSE)
        /\ StoryNameOf(contact) # 0
        /\ l' = [l EXCEPT ![p] =
                    [IdleLocal EXCEPT !.kind = "direct", !.doc = doc,
                                      !.contact = contact, !.pc = "stage",
                                      !.story = stories[StoryNameOf(contact)]]]
        /\ writer' = "none"
        /\ UNCHANGED <<stories, events, itins, env>>

SentFacts ==
    <<[key |-> "proposal.itinerary", value |-> "ITIN-01",
       precedence |-> "business_object", source_doc_type |-> "Communication",
       source_doc |-> "COMM-1", last_seen_at |-> 0],
      [key |-> "proposal.sent_at", value |-> "2025-06-02 10:00:00",
       precedence |-> "business_object", source_doc_type |-> "Communication",
       source_doc |-> "COMM-1", last_seen_at |-> 0]>>

DraftSnapshot ==
    <<[itinerary |-> "ITIN-01", status |-> "Draft",
       valid_from |-> "2025-06-01", valid_to |-> "2025-06-10"]>>

\* A Story at any of the seven stages: the engine's rules reach the first
\* four, an external writer sets the last three.
StageInit ==
    /\ InitProcs
    /\ today = "2025-05-15"
    /\ commSingle = FALSE
    /\ events = <<>>
    /\ itins = {}
    /\ \E stage \in StageSet, facts \in {<<>>, SentFacts},
          itineraries \in {<<>>, DraftSnapshot} :
        /\ facts # <<>> => STAGE_ORDER(stage) >= 3
        /\ itineraries # <<>> => STAGE_ORDER(stage) >= 2
        /\ stories = <<[NewStory("C1", 1) EXCEPT !.stage = stage, !.facts = facts,
                                                 !.itineraries = itineraries]>>

StageNext ==
    \/ \E p \in SeqProcs :
        \/ StartDirect(p)
        \/ Stage(p)
        \/ Event(p)
        \/ Return(p)
    \/ Tick

StageSpec == StageInit /\ [][StageNext]_vars

(***************************************************************************)
(* Calls of upsert_fact with arbitrary arguments                           *)
(***************************************************************************)
MaxUpserts == 3

FactKeys == {"proposal.itinerary", "proposal.sent_at"}

\* The arguments of a call: key, value and the optional source.
UpsertArgs ==
    [key : FactKeys, value : {None, "ITIN-01", "ITIN-02"},
     source : {[doctype |-> None, name |-> None],
               [doctype |-> "Communication", name |-> "COMM-2"]}]

\* A caller takes the Story of a contact and calls upsert_fact on it; doc.first
\* is the fact rows it started from, doc.made the calls it has made so far.
StartUpserts(p) ==
    \E contact \in Contacts :
        /\ Begin(p, FALSE)
        /\ StoryNameOf(contact) # 0
        /\ l' = [l EXCEPT ![p] =
                    [IdleLocal EXCEPT
                        !.kind = "upsert_fact",
                        !.doc = [doctype |-> "upsert_fact", name |-> None,
                                 first |-> stories[StoryNameOf(contact)].facts,
                                 made |-> <<>>],
                        !.contact = contact, !.pc = "upsert",
                        !.story = stories[StoryNameOf(contact)]]]
        /\ writer' = "none"
        /\ UNCHANGED <<stories, events, itins, env>>

\* upsert_fact, lines 46-72.
Upsert(p) ==
    \E args \in UpsertArgs :
        LET lp == l[p]
            story == upsert_fact(lp.story, args.key, args.value, args.source.doctype,
                                 args.source.name, "business_object")
        IN  /\ lp.pc = "upsert"
            /\ Len(lp.doc.made) < MaxUpserts
            /\ stories' = SaveStory(story)
            /\ l' = [l EXCEPT ![p] =
                        [lp EXCEPT !.story = story, !.doc.made = Append(@, args)]]
            /\ writer' = p
            /\ UNCHANGED <<events, itins, env, calls>>

\* A Story whose fact rows have distinct keys.
FactInit ==
    /\ InitProcs
    /\ today = "2025-05-15"
    /\ commSingle = FALSE
    /\ events = <<>>
    /\ itins = {}
    /\ \E facts \in {<<>>, SentFacts, <<SentFacts[2]>>} :
        stories = <<[NewStory("C1", 1) EXCEPT !.facts = facts]>>

FactNext ==
    \/ \E p \in SeqProcs :
        \/ StartUpserts(p)
        \/ Upsert(p)
    \/ Tick

FactSpec == FactInit /\ [][FactNext]_vars

(***************************************************************************)
(* Itinerary change notifications of one contact                           *)
(***************************************************************************)
\* Two Itineraries of contact C1, on different Trips, in every delivered form.
SnapItineraries == {i \in ItineraryDocs : i.name \in {"ITIN-01", "ITIN-05"}}
SnapComms == {c \in CommDocs : c.name \in {"COMM-1", "COMM-2"}}

\* Itinerary notifications one at a time, each processed once or twice, with
\* Communications of the contact in between.
SnapNext ==
    \E p \in SeqProcs :
        \/ StartItinerary(p, FALSE, SnapItineraries)
        \/ StartComm(p, FALSE, SnapComms)
        \/ Again(p)
        \/ Ensure(p)
        \/ Insert(p)
        \/ Snapshot(p)
        \/ Fact1(p)
        \/ Fact2(p)
        \/ Stage(p)
        \/ Event(p)
        \/ Return(p)

SnapSpec == Init /\ [][SnapNext]_vars

(***************************************************************************)
(* Calls of the functions of story/rules.py                                *)
(***************************************************************************)
\* The intents trip_ready_for_proposal is called with.
Intents ==
    [destinations : {<<>>, <<"Paris">>, <<"Paris", "Rome">>},
     dates : [start : {None, "", "2025-06-01"},
              end : {None, "2025-06-10"},
              flex : {None, "", "Exact dates", "exact dates", "+/- 3 days"}],
     pax : {<<>>, <<0>>, <<-1>>, <<1>>, <<3>>}]

\* The arguments choose_stage is called with.
ChooseStageArgs ==
    [current_stage : StageSet \cup {None, ""}, has_contact : BOOLEAN,
     has_itinerary : BOOLEAN, itinerary_statuses : {<<>>, <<"Draft">>},
     trip_ready : BOOLEAN, proposal_sent_flag : BOOLEAN]

\* A call of trip_ready_for_proposal: the caller holds the intent and the
\* value returned.
CallTripReady(p) ==
    \E intent \in Intents :
        /\ Begin(p, FALSE)
        /\ l' = [l EXCEPT ![p] =
                    [IdleLocal EXCEPT
                        !.kind = "trip_ready_for_proposal", !.pc = "done",
                        !.doc = [doctype |-> "intent", name |-> None,
                                 intent |-> intent,
                                 result |-> trip_ready_for_proposal(intent)]]]
        /\ writer' = "none"
        /\ UNCHANGED <<stories, events, itins, env>>

\* A call of choose_stage: the caller holds the arguments and the value
\* returned.
CallChooseStage(p) ==
    \E args \in ChooseStageArgs :
        /\ Begin(p, FALSE)
        /\ l' = [l EXCEPT ![p] =
                    [IdleLocal EXCEPT
                        !.kind = "choose_stage", !.pc = "done",
                        !.doc = [doctype |-> "arguments", name |-> None,
                                 args |-> args,
                                 result |-> choose_stage(args.current_stage,
                                                args.has_contact, args.has_itinerary,
                                                args.itinerary_statuses, args.trip_ready,
                                                args.proposal_sent_flag)]]]
        /\ writer' = "none"
        /\ UNCHANGED <<stories, events, itins, env>>

RulesNext ==
    \E p \in SeqProcs :
        \/ CallTripReady(p)
        \/ CallChooseStage(p)
        \/ Return(p)

RulesSpec == Init /\ [][RulesNext]_vars

(***************************************************************************)
(* Entry points on a Story whose stage a writer outside the engine sets    *)
(***************************************************************************)
\* The stages no rule of choose_stage targets.
LateStages == {"Booking", "Fulfillment", "Post-trip"}

\* A writer outside the engine sets the stage of a stored Story.
ExternalStage ==
    \E i \in DOMAIN stories, stage \in LateStages :
        /\ stories[i].stage # stage
        /\ stories' = [stories EXCEPT ![i].stage = stage]
        /\ writer' = "external"
        /\ UNCHANGED <<events, itins, env, l, calls>>

ExtComms == {c \in CommDocs : c.name \in {"COMM-1", "COMM-2", "COMM-8"}}

\* Invocations of the entry points, one at a time, and the outside writer at
\* any moment.
ExtNext ==
    \/ \E p \in SeqProcs :
        \/ StartTrip(p, FALSE, ConcTrips)
        \/ StartItinerary(p, FALSE, ConcItineraries)
        \/ StartComm(p, FALSE, ExtComms)
        \/ Ensure(p)
        \/ Insert(p)
        \/ Primary(p)
        \/ Snapshot(p)
        \/ Fact1(p)
        \/ Fact2(p)
        \/ Stage(p)
        \/ Event(p)
        \/ Return(p)
    \/ ExternalStage

ExtSpec == Init /\ [][ExtNext]_vars

(***************************************************************************)
(* Calls of extract_itinerary_ref_from_comm                                *)
(***************************************************************************)
PathToken(ref) == [kind |-> "path", ref |-> ref]
CodeToken(ref) == [kind |-> "code", ref |-> ref]
TextToken == [kind |-> "text", ref |-> None]

\* The Communications the extractor is called with: every combination of
\* reference fields, timeline links, content and subject below.
ExtractComms ==
    {[Comm("COMM-X", rd, rn, links, content, "Sent", None) EXCEPT !.subject = subject] :
        rd \in {None, "Contact", "Itinerary", "itinerary"},
        rn \in {None, "ITIN-01"},
        links \in {<<>>, ItinLink("ITIN-02"),
                   <<[link_doctype |-> "Contact", link_name |-> "C1"],
                     [link_doctype |-> "Itinerary", link_name |-> None],
                     [link_doctype |-> "ITINERARY", link_name |-> "ITIN-03"]>>},
        content \in {<<>>, <<TextToken>>, <<CodeToken("PCK-0001-0002")>>,
                     <<TextToken, CodeToken("PCK-0001-0002"), PathToken("ITIN-04")>>},
        subject \in {<<>>, <<PathToken("ITIN-05")>>, <<CodeToken("PCK-0003-0004")>>}}

\* A call of extract_itinerary_ref_from_comm: the caller holds the
\* Communication and the pair returned.
CallExtract(p) ==
    \E comm \in ExtractComms :
        /\ Begin(p, FALSE)
        /\ l' = [l EXCEPT ![p] =
                    [IdleLocal EXCEPT
                        !.kind = "extract_itinerary_ref_from_comm", !.pc = "done",
                        !.doc = [doctype |-> "extraction", name |-> None,
                                 comm |-> comm,
                                 result |-> extract_itinerary_ref_from_comm(comm)]]]
        /\ writer' = "none"
        /\ UNCHANGED <<stories, events, itins, env>>

ExtractNext ==
    \E p \in SeqProcs :
        \/ CallExtract(p)
        \/ Return(p)

ExtractSpec == Init /\ [][ExtractNext]_vars

(***************************************************************************)
(* Overlapping invocations for two contacts                                *)
(***************************************************************************)
IsoTrips == {"T1", "T4"}
IsoItineraries == {i \in ItineraryDocs : i.name = "ITIN-04"}
IsoComms == {c \in CommDocs : c.name \in {"COMM-1", "COMM-7"}}

IsoNext ==
    \E p \in Procs :
        \/ StartTrip(p, TRUE, IsoTrips)
        \/ StartItinerary(p, TRUE, IsoItineraries)
        \/ StartComm(p, TRUE, IsoComms)
        \/ Ensure(p)
        \/ Insert(p)
        \/ Primary(p)
        \/ Snapshot(p)
        \/ Fact1(p)
        \/ Fact2(p)
        \/ Stage(p)
        \/ Event(p)
        \/ Return(p)

IsoSpec == Init /\ [][IsoNext]_vars

(***************************************************************************)
(* Trip notifications of a contact with several Trips, over the calendar   *)
(***************************************************************************)
PrimaryInit ==
    /\ InitEmpty
    /\ today = Dates[1]
    /\ commSingle = FALSE

PrimaryNext ==
    \/ \E p \in SeqProcs :
        \/ StartTrip(p, FALSE, TripsOf("C2"))
        \/ Ensure(p)
        \/ Insert(p)
        \/ Primary(p)
        \/ Stage(p)
        \/ Event(p)
        \/ Return(p)
    \/ NextDay

PrimarySpec == PrimaryInit /\ [][PrimaryNext]_vars

(***************************************************************************)
(* Store writes that fail                                                  *)
(***************************************************************************)
\* The records of contact C1 delivered while store writes can fail.
FailTrips == {"T1"}
FailItineraries == {i \in ItineraryDocs : i.name = "ITIN-01" /\ i.status = "Draft"}
FailComms == {c \in CommDocs : c.name \in {"COMM-1", "COMM-2"}}
FailDocs == {GetTrip(name) : name \in FailTrips} \cup FailItineraries \cup FailComms

KindOf(doc) ==
    CASE doc.doctype = "Trip" -> "trip"
      [] doc.doctype = "Itinerary" -> "itinerary"
      [] OTHER -> "comm"

\* The store invokes an entry point inside the request that changed the
\* document; entry holds the store as it was when the request began.
StartInRequest(p) ==
    \E doc \in FailDocs :
        /\ Begin(p, FALSE)
        /\ itins' = IF doc.doctype = "Itinerary"
                    THEN {i \in itins : i.name # doc.name} \cup {doc}
                    ELSE itins
        /\ l' = [l EXCEPT ![p] =
                    [Enter(KindOf(doc), doc, FALSE)
                        EXCEPT !.entry = <<stories, events, itins>>]]
        /\ writer' = "none"
        /\ UNCHANGED <<stories, events, env>>

\* Whether the next step of the invocation writes to the store: doc.insert
\* (lines 28, 96) or story.save (lines 72, 122, 214, 270).
WriteIsNext(lp) ==
    CASE lp.pc \in {"insert", "snapshot", "fact1", "fact2", "event"} -> TRUE
      [] lp.pc = "primary" ->
            LET new_primary == _choose_primary_trip_for_contact(lp.contact)
            IN  Truthy(new_primary) /\ lp.story.primary_trip # new_primary
      [] lp.pc = "stage" ->
            IF StageCallRaises(lp) THEN FALSE
            ELSE StageChanges(lp.story, CurrentStageCall(lp))
      [] OTHER -> FALSE

AfterWriteFailureRetrying(lp) == [lp EXCEPT !.failed = TRUE]

\* No write of the engine is inside a try block: the exception of a failed
\* write leaves every frame up to the caller of the entry point.
AfterWriteFailure(lp) == [lp EXCEPT !.pc = "raised", !.failed = TRUE]

\* A store write raises and writes nothing.
Fail(p) ==
    /\ WriteIsNext(l[p])
    /\ ~l[p].failed
    /\ l' = [l EXCEPT ![p] = AfterWriteFailure(l[p])]
    /\ writer' = "none"
    /\ UNCHANGED <<stories, events, itins, env, calls>>

\* The request whose entry point raised is rolled back by the store: the
\* writes made since it began are undone.  Return is the outcome in which
\* the caller keeps them.
Rollback(p) ==
    /\ l[p].pc = "raised"
    /\ l[p].failed
    /\ stories' = l[p].entry[1]
    /\ events' = l[p].entry[2]
    /\ itins' = l[p].entry[3]
    /\ l' = [l EXCEPT ![p] = IdleLocal]
    /\ writer' = "external"
    /\ UNCHANGED <<env, calls>>

FailInit ==
    /\ InitEmpty
    /\ today = "2025-05-15"
    /\ commSingle = FALSE

\* Invocations one at a time, each of whose store writes can fail.
FailNext ==
    \E p \in SeqProcs :
        \/ StartInRequest(p)
        \/ Ensure(p)
        \/ Insert(p)
        \/ Primary(p)
        \/ Snapshot(p)
        \/ Fact1(p)
        \/ Fact2(p)
        \/ Stage(p)
        \/ Event(p)
        \/ Fail(p)
        \/ Return(p)
        \/ Rollback(p)

FailSpec == FailInit /\ [][FailNext]_vars

(***************************************************************************)
(* The notifications of a contact's records, in any order                  *)
(***************************************************************************)
\* The Itinerary and Communication records a contact can have besides its
\* Trips: contact C1 has a ready Trip, contact C2 has none.
OrderItineraries(contact) ==
    {i \in ItineraryDocs :
        /\ i.name \in {"ITIN-01", "ITIN-04"}
        /\ i.status = "Draft"
        /\ GetTrip(i.trip).customer = contact}

OrderComms(contact) ==
    IF contact = "C1"
    THEN {c \in CommDocs : c.name \in {"COMM-1", "COMM-2"}}
    ELSE {c \in CommDocs : c.name = "COMM-7"}
            \cup {Comm("COMM-9", "Contact", "C2", ItinLink("ITIN-04"), <<>>, "Sent", None)}

\* The record sets of a contact: its Trips with some of its other records.
OrderSets(contact) ==
    {{GetTrip(name) : name \in TripsOf(contact)} \cup some_itineraries \cup some_comms :
        some_itineraries \in SUBSET OrderItineraries(contact),
        some_comms \in SUBSET OrderComms(contact)}

\* The store calls the entry point for one of the records whose notification
\* is still to be processed.
Deliver(p) ==
    \E doc \in inbox.todo :
        /\ Begin(p, FALSE)
        /\ itins' = IF doc.doctype = "Itinerary"
                    THEN {i \in itins : i.name # doc.name} \cup {doc}
                    ELSE itins
        /\ l' = [l EXCEPT ![p] = Enter(KindOf(doc), doc, FALSE)]
        /\ inbox' = [inbox EXCEPT !.todo = @ \ {doc}]
        /\ writer' = "none"
        /\ UNCHANGED <<stories, events, now, today, commSingle>>

\* A contact without a Story and a set of its records, none processed yet;
\* the Itineraries are in the store from the start, or each is written when
\* its notification is raised.
OrderInit ==
    /\ now = 0
    /\ l = [p \in Procs |-> IdleLocal]
    /\ writer = "none"
    /\ calls = 0
    /\ stories = <<>>
    /\ events = <<>>
    /\ today = "2025-05-15"
    /\ commSingle = FALSE
    /\ \E contact \in Contacts : \E all \in OrderSets(contact) :
        /\ inbox = [all |-> all, todo |-> all]
        /\ itins \in {{}, {d \in all : d.doctype = "Itinerary"}}

\* One notification per record, one invocation at a time.
OrderNext ==
    \E p \in SeqProcs :
        \/ Deliver(p)
        \/ Ensure(p)
        \/ Insert(p)
        \/ Primary(p)
        \/ Snapshot(p)
        \/ Fact1(p)
        \/ Fact2(p)
        \/ Stage(p)
        \/ Event(p)
        \/ Return(p)

OrderSpec == OrderInit /\ [][OrderNext]_vars

(***************************************************************************)
(* Calls of choose_stage that differ in itinerary_statuses alone           *)
(***************************************************************************)
\* The status lists of the Itineraries found for a Trip.
StatusLists == {<<>>, <<"Draft">>, <<"Approved">>, <<"Draft", "Sent">>}

\* Two calls of choose_stage with the same arguments but for
\* itinerary_statuses: the caller holds both lists and both values returned.
CallChooseStagePair(p) ==
    \E args \in ChooseStageArgs, other_statuses \in StatusLists :
        /\ Begin(p, FALSE)
        /\ l' = [l EXCEPT ![p] =
                    [IdleLocal EXCEPT
                        !.kind = "choose_stage_pair", !.pc = "done",
                        !.doc = [doctype |-> "arguments", name |-> None,
                                 args |-> args,
                                 other_statuses |-> other_statuses,
                                 result |-> choose_stage(args.current_stage,
                                                args.has_contact, args.has_itinerary,
                                                args.itinerary_statuses, args.trip_ready,
                                                args.proposal_sent_flag),
                                 other_result |-> choose_stage(args.current_stage,
                                                args.has_contact, args.has_itinerary,
                                                other_statuses, args.trip_ready,
                                                args.proposal_sent_flag)]]]
        /\ writer' = "none"
        /\ UNCHANGED <<stories, events, itins, env>>

\* Pairs of calls, and the Itinerary notifications of contact C1 in every
\* status, one at a time.
StatusNext ==
    \E p \in SeqProcs :
        \/ CallChooseStagePair(p)
        \/ StartItinerary(p, FALSE, SnapItineraries)
        \/ Ensure(p)
        \/ Insert(p)
        \/ Snapshot(p)
        \/ Stage(p)
        \/ Event(p)
        \/ Return(p)

StatusSpec == Init /\ [][StatusNext]_vars

(***************************************************************************)
(* Calls of story_facts_to_dict and proposal_sent on arbitrary Fact rows   *)
(***************************************************************************)
MaxRows == 3

\* The Fact rows of a Story: a key, a stored value text and last_seen_at.
FactRows ==
    [key : {"proposal", "proposal.sent_at", "proposal.itinerary", ""},
     value : {"", "x", JsonObjectText, BrokenJsonText},
     last_seen_at : 0..1]

FactTables ==
    {<<>>} \cup {<<a>> : a \in FactRows}
           \cup {<<a, b>> : a \in FactRows, b \in FactRows}
           \cup (IF MaxRows >= 3
                 THEN {<<a, b, c>> : a \in FactRows, b \in FactRows, c \in FactRows}
                 ELSE {})

\* A call of story_facts_to_dict: the caller holds the rows and the mapping
\* returned.
CallFactsToDict(p) ==
    /\ Begin(p, FALSE)
    /\ \E rows \in FactTables :
        l' = [l EXCEPT ![p] =
                [IdleLocal EXCEPT
                    !.kind = "story_facts_to_dict", !.pc = "done",
                    !.doc = [doctype |-> "rows", name |-> None, rows |-> rows,
                             result |-> story_facts_to_dict([facts |-> rows])]]]
    /\ writer' = "none"
    /\ UNCHANGED <<stories, events, itins, env>>

\* A call of proposal_sent on the mapping of the rows: the caller holds the
\* rows and the value returned, or the exception.
CallProposalSent(p) ==
    /\ Begin(p, FALSE)
    /\ \E rows \in FactTables :
        LET facts == story_facts_to_dict([facts |-> rows])
        IN  l' = [l EXCEPT ![p] =
                    [IdleLocal EXCEPT
                        !.kind = "proposal_sent",
                        !.pc = IF proposal_sent_raises(facts)
                               THEN "raised" ELSE "done",
                        !.doc = [doctype |-> "rows", name |-> None, rows |-> rows,
                                 facts |-> facts,
                                 result |-> IF proposal_sent_raises(facts)
                                            THEN "AttributeError"
                                            ELSE IF proposal_sent(facts)
                                            THEN "True" ELSE "False"]]]
    /\ writer' = "none"
    /\ UNCHANGED <<stories, events, itins, env>>

DictNext ==
    \E p \in SeqProcs :
        \/ CallFactsToDict(p)
        \/ CallProposalSent(p)
        \/ Return(p)

DictSpec == Init /\ [][DictNext]_vars

(***************************************************************************)
(* Properties                                                              *)
(***************************************************************************)
Rank(stage) == STAGE_ORDER(OrInquiry(stage))

\* The stage choose_and_update_stage computes for the call process p is at.
CallTarget(p) ==
    LET args == CurrentStageCall(l[p])
    IN  choose_stage(OrInquiry(l[p].story.stage), args.has_contact,
                     args.has_itinerary, args.itinerary_statuses,
                     args.trip_ready, args.proposal_sent_flag)

\* Process p takes the step at pc in this transition.
Steps(p, pc) == l[p].pc = pc /\ l'[p] # l[p]

\* C1: over any sequence of choose_and_update_stage calls with arbitrary
\* flags, the rank of the Story's stage never decreases.
C1_StageRankNeverDecreases ==
    [][\A i \in DOMAIN stories :
          /\ i \in DOMAIN stories'
          /\ Rank(stories'[i].stage) >= Rank(stories[i].stage)]_vars

\* A Story advanced three times by the calls, on which a call whose flags
\* give a lower target then returned.
C1_Witness ==
    \E p \in Procs :
        /\ l[p].pc = "done"
        /\ l[p].kind = "direct"
        /\ ~l[p].doc.proposal_sent_flag
        /\ stories[1].stage = "Negotiation"
        /\ stories[1].story_version = 4

\* C2: a call whose target differs from the current stage sets the stage to
\* the target, adds one to story_version, sets last_touch_from to "system" and
\* last_touch_reason to the caller's reason, saves the Story, and then appends
\* exactly one Story Event of the contact with the from/to diff.
C2_StageChangeWritesOnce ==
    [][\A p \in Procs :
          /\ (Steps(p, "stage") /\ CallTarget(p) # OrInquiry(l[p].story.stage)) =>
                /\ l'[p].story.stage = CallTarget(p)
                /\ l'[p].story.story_version = l[p].story.story_version + 1
                /\ l'[p].story.last_touch_from = "system"
                /\ l'[p].story.last_touch_reason = CurrentStageCall(l[p]).mutation_reason
                /\ stories'[l[p].story.name] = l'[p].story
                /\ l'[p].old_stage = OrInquiry(l[p].story.stage)
                /\ l'[p].pc = "event"
                /\ events' = events
          /\ Steps(p, "event") =>
                /\ Len(events') = Len(events) + 1
                /\ SubSeq(events', 1, Len(events)) = events
                /\ events'[Len(events')].contact = l[p].story.contact
                /\ events'[Len(events')].diff =
                        [from |-> l[p].old_stage, to |-> l[p].story.stage]
                /\ l'[p].pc = "done"
                /\ stories' = stories
          /\ Steps(p, "done") => events' = events /\ stories' = stories]_vars

\* A call moved a Story from Inquiry to Proposal and returned.
C2_Witness ==
    \E p \in Procs :
        /\ l[p].pc = "done"
        /\ l[p].kind = "direct"
        /\ stories[1].stage = "Proposal"
        /\ stories[1].story_version = 2
        /\ Len(events) = 1
        /\ events[1].diff = [from |-> "Inquiry", to |-> "Proposal"]

\* C3: a call whose target equals the current stage writes nothing: the
\* Story (stage, story_version, last_built_at, last_touch_from,
\* last_touch_reason, facts, snapshots) is unchanged and no event is appended.
C3_SameStageWritesNothing ==
    [][\A p \in Procs :
          (Steps(p, "stage") /\ CallTarget(p) = OrInquiry(l[p].story.stage)) =>
                /\ stories' = stories
                /\ events' = events
                /\ l'[p].story = l[p].story
                /\ l'[p].pc = "done"]_vars

\* A call with the proposal flag returned on a Story at Negotiation that
\* holds facts and a snapshot, after time has passed.
C3_Witness ==
    \E p \in Procs :
        /\ l[p].pc = "done"
        /\ l[p].kind = "direct"
        /\ l[p].doc.proposal_sent_flag
        /\ stories[1].stage = "Negotiation"
        /\ stories[1].facts # <<>>
        /\ stories[1].itineraries # <<>>
        /\ stories[1].last_built_at < now
        /\ events = <<>>

\* What the claims compare of the store: per Story its stage, version, fact
\* keys and values and snapshot rows, and the event log.
FactValues(story) == [i \in DOMAIN story.facts |-> <<story.facts[i].key, story.facts[i].value>>]

StoreView ==
    <<[i \in DOMAIN stories |->
         <<stories[i].stage, stories[i].story_version, FactValues(stories[i]),
           stories[i].itineraries>>],
      events>>

\* C4: while a notification is processed for the second time in succession,
\* the stage, story_version, fact keys and values, snapshot rows and event
\* log stay as the first processing left them.
C4_SecondProcessingChangesNothing ==
    [][(\E p \in Procs : l[p].repeat) => StoreView' = StoreView]_vars

\* The second processing of a Sent Communication returned, the first having
\* recorded the proposal and moved the Story to Negotiation with an event.
C4_Witness ==
    \E p \in Procs :
        /\ l[p].repeat
        /\ l[p].pc = "done"
        /\ l[p].kind = "comm"
        /\ l[p].doc.sent_or_received = "Sent"
        /\ stories[1].stage = "Negotiation"
        /\ stories[1].facts # <<>>
        /\ events # <<>>
        /\ events[Len(events)].source_ref = l[p].doc.name

\* C5: the persisted stage of a contact's Story never decreases in rank, in
\* every interleaving of invocations that each save their own copy.
C5_PersistedStageNeverDecreases ==
    [][\A c \in Contacts :
          (StoryNameOf(c) # 0) =>
              Rank(stories'[StoryNameOf(c)].stage) >= Rank(stories[StoryNameOf(c)].stage)]_vars

\* C6: the event log never holds two events of one contact with the same
\* from/to stage diff.
C6_NoTransitionRecordedTwice ==
    \A i, j \in DOMAIN events :
        (i < j /\ events[i].contact = events[j].contact) =>
            events[i].diff # events[j].diff

\* C7: at most one Story per contact, also when two invocations for the
\* contact both find no Story and both insert.
C7_OneStoryPerContact ==
    \A c \in Contacts :
        Cardinality({i \in DOMAIN stories : stories[i].contact = c}) <= 1

\* Two invocations found no Story for the contact; one insert succeeded and
\* the other was rejected.
C7_Witness ==
    \E p, q \in Procs :
        /\ p # q
        /\ l[p].conflict
        /\ l[q].created
        /\ l[p].contact = l[q].contact
        /\ Len(stories) = 1

\* C8: an insert rejected for uniqueness is raised to the caller of the
\* entry point, and that invocation writes nothing afterwards.
C8_ConflictRaisedNothingWritten ==
    [][\A p \in Procs :
          /\ l'[p].conflict => l'[p].pc = "raised"
          /\ (l[p].conflict /\ l'[p] # l[p]) =>
                /\ l'[p] = IdleLocal
                /\ stories' = stories
                /\ events' = events]_vars

\* The exception of a rejected insert has reached the caller while the
\* winner of the race goes on.
C8_Witness ==
    \E p, q \in Procs :
        /\ l[p].conflict
        /\ l[p].pc = "raised"
        /\ l[q].created
        /\ l[q].pc \notin {"idle", "done", "raised"}

\* C9: ensure_story returns the existing Story of the contact and leaves the
\* store untouched; when there is none it inserts exactly one Story, at
\* Inquiry with story_version 1, and the next lookup finds that Story.
C9_EnsureStoryReturnsOrCreatesOne ==
    [][\A p \in Procs :
          /\ Steps(p, "ensure") =>
                /\ stories' = stories
                /\ events' = events
                /\ StoryNameOf(l[p].contact) # 0 =>
                        l'[p].story = stories[StoryNameOf(l[p].contact)]
                /\ StoryNameOf(l[p].contact) = 0 => l'[p].pc = "insert"
          /\ Steps(p, "insert") =>
                /\ Len(stories') = Len(stories) + 1
                /\ SubSeq(stories', 1, Len(stories)) = stories
                /\ stories'[Len(stories')].contact = l[p].contact
                /\ stories'[Len(stories')].stage = "Inquiry"
                /\ stories'[Len(stories')].story_version = 1
                /\ stories'[Len(stories')].facts = <<>>
                /\ stories'[Len(stories')].itineraries = <<>>
                /\ l'[p].story = stories'[Len(stories')]
                /\ C7_OneStoryPerContact'
                /\ events' = events]_vars

\* Within one invocation ensure_story created the Story and, called again by
\* mark_proposal_sent, returned that Story.
C9_Witness ==
    \E p \in Procs :
        /\ l[p].created
        /\ l[p].inmps
        /\ l[p].pc = "fact1"
        /\ Len(stories) = 1
        /\ l[p].story = stories[1]
        /\ l[p].story.stage = "Inquiry"

\* C10: an entry point that returns for a record with a contact leaves a
\* Story of that contact in the store, the one it worked on; no step removes
\* a Story or changes its contact.
C10_StoryExistsAfterEntryPoint ==
    [][/\ \A p \in Procs :
            (l'[p].pc = "done" /\ Truthy(l'[p].contact)) =>
                \E i \in DOMAIN stories' :
                    /\ stories'[i].contact = l'[p].contact
                    /\ l'[p].story.name = i
       /\ \A i \in DOMAIN stories :
            /\ i \in DOMAIN stories'
            /\ stories'[i].contact = stories[i].contact]_vars

\* A Received Communication whose contact had no Story returned, having
\* created the Story.
C10_Witness ==
    \E p \in Procs :
        /\ l[p].pc = "done"
        /\ l[p].kind = "comm"
        /\ l[p].doc.sent_or_received = "Received"
        /\ l[p].created
        /\ stories[1].contact = l[p].contact

\* The last of the calls made whose key is k, or 0.
LastCallFor(made, k) ==
    LET hits == {j \in DOMAIN made : made[j].key = k}
    IN  IF hits = {} THEN 0 ELSE CHOOSE j \in hits : \A i \in hits : i <= j

\* C11: after any sequence of upsert_fact calls on a Story whose fact rows
\* start with distinct keys, the stored Story has at most one row per key; the
\* row of a key that was upserted holds the serialized value ("" for None,
\* else the string) of the last call for that key, and the row of a key that
\* was not upserted is as it started.
C11_OneRowPerKeyLatestValue ==
    \A p \in Procs :
        l[p].kind = "upsert_fact" =>
            LET rows == stories[l[p].story.name].facts
                first == l[p].doc.first
                made == l[p].doc.made
            IN  \A k \in FactKeys :
                    LET at == {i \in DOMAIN rows : rows[i].key = k}
                        last == LastCallFor(made, k)
                    IN  /\ Cardinality(at) <= 1
                        /\ last # 0 =>
                            \E i \in at :
                                rows[i].value = IF made[last].value = None THEN ""
                                                ELSE made[last].value
                        /\ last = 0 =>
                            {rows[i] : i \in at}
                                = {first[i] : i \in {j \in DOMAIN first : first[j].key = k}}

\* Three calls on a Story without facts: a key upserted, another key upserted,
\* then the first key upserted again with a different value.
C11_Witness ==
    \E p \in Procs :
        /\ l[p].kind = "upsert_fact"
        /\ l[p].doc.first = <<>>
        /\ Len(l[p].doc.made) = 3
        /\ l[p].doc.made[1].key = l[p].doc.made[3].key
        /\ l[p].doc.made[1].value # l[p].doc.made[3].value
        /\ l[p].doc.made[2].key # l[p].doc.made[1].key
        /\ Len(stories[1].facts) = 2

\* C12: after any sequence of Itinerary change notifications a Story has at
\* most one snapshot row per itinerary id, and once a notification's refresh
\* has run, the row of every Itinerary of the contact carries the status,
\* valid_from and valid_to of the notification delivered last for it (the
\* stored Itinerary).
C12_OneSnapshotPerItineraryLatest ==
    /\ \A s \in DOMAIN stories : \A i, j \in DOMAIN stories[s].itineraries :
            stories[s].itineraries[i].itinerary = stories[s].itineraries[j].itinerary
                => i = j
    /\ (\A p \in Procs :
            l[p].kind = "itinerary" => l[p].pc \notin {"ensure", "insert", "snapshot"})
        => \A d \in itins :
                LET contact == IF Truthy(d.trip) THEN GetTrip(d.trip).customer ELSE None
                IN  Truthy(contact) =>
                        /\ StoryNameOf(contact) # 0
                        /\ \E i \in DOMAIN stories[StoryNameOf(contact)].itineraries :
                                stories[StoryNameOf(contact)].itineraries[i]
                                    = [itinerary |-> d.name, status |-> d.status,
                                       valid_from |-> d.valid_from,
                                       valid_to |-> d.valid_to]

\* Two Itineraries have snapshot rows; the one whose row was added first was
\* notified again after the other's row was added, and that notification has
\* returned.
C12_Witness ==
    \E p \in Procs :
        /\ l[p].pc = "done"
        /\ l[p].kind = "itinerary"
        /\ l[p].doc.name = "ITIN-05"
        /\ l[p].doc.status = "Sent"
        /\ l[p].doc.valid_to = "2025-06-10"
        /\ Len(stories[1].itineraries) = 2
        /\ stories[1].itineraries[1].itinerary = "ITIN-05"
        /\ stories[1].itineraries[1].status = "Sent"
        /\ stories[1].itineraries[2].status = "Approved"
        /\ stories[1].facts # <<>>

\* C13: the Story Event log is append-only: every step of every invocation
\* leaves the events inserted before it in place and unmodified, so the log
\* after the step extends the log before it.
C13_EventLogAppendOnly ==
    [][/\ Len(events') >= Len(events)
       /\ SubSeq(events', 1, Len(events)) = events]_vars

\* Two invocations have each appended an event.
C13_Witness ==
    /\ Len(events) = 2
    /\ events[1].source_ref # events[2].source_ref
    /\ events[1].diff.to = events[2].diff.from

\* The record lacks the linkage to a contact: a Trip without customer, an
\* Itinerary without Trip or whose Trip has no customer, a Communication
\* with neither a Contact reference nor a phone number that resolves.
MissingLinkage(kind, doc) ==
    CASE kind = "trip" -> ~Truthy(doc.customer)
      [] kind = "itinerary" ->
            ~Truthy(doc.trip) \/ ~Truthy(GetTrip(doc.trip).customer)
      [] kind = "comm" ->
            /\ ~(doc.reference_doctype = "Contact" /\ Truthy(doc.reference_name))
            /\ ~(Truthy(doc.phone_no) /\ Truthy(ContactFromPhone(doc.phone_no)))
      [] OTHER -> FALSE

\* Process p enters an entry point in this transition.
Enters(p) ==
    /\ l[p].pc \in {"idle", "done"}
    /\ l'[p].kind \in {"trip", "itinerary", "comm"}
    /\ l'[p] # l[p]

\* C14: an entry point given a record with a missing linkage returns
\* normally, without an error, and creates no Story and writes no fact,
\* snapshot, stage or event.
C14_MissingLinkageSkipped ==
    [][\A p \in Procs :
          (Enters(p) /\ MissingLinkage(l'[p].kind, l'[p].doc)) =>
                /\ l'[p].pc = "done"
                /\ stories' = stories
                /\ events' = events]_vars

\* C15: update_from_business on a Trip with a customer, a destination, start
\* and end dates and pax > 0, whose contact has no Story and no Itineraries,
\* creates the Story at Inquiry and in the same call moves it to Proposal:
\* when the call returns the Story is at Proposal with story_version 2 and
\* the log holds exactly one event, with diff Inquiry -> Proposal.
C15_ReadyTripCreatesStoryAtProposal ==
    [][\A p \in Procs :
          LET trip == l[p].doc
              ready == /\ l[p].kind = "trip"
                       /\ Truthy(trip.customer)
                       /\ Len(trip.destination_city) >= 1
                       /\ Truthy(trip.start_date) /\ Truthy(trip.end_date)
                       /\ trip.pax # <<>> /\ trip.pax[1] > 0
                       /\ \A i \in itins : ~Truthy(i.trip) \/ GetTrip(i.trip).customer # trip.customer
          IN  /\ (ready /\ Steps(p, "insert")) =>
                    /\ stories'[Len(stories')].stage = "Inquiry"
                    /\ stories'[Len(stories')].story_version = 1
                    /\ events' = <<>>
              /\ (ready /\ l[p].created /\ l[p].pc # "done" /\ l'[p].pc = "done") =>
                    /\ stories'[l[p].story.name].contact = trip.customer
                    /\ stories'[l[p].story.name].stage = "Proposal"
                    /\ stories'[l[p].story.name].story_version = 2
                    /\ Len(events') = 1
                    /\ events'[1].contact = trip.customer
                    /\ events'[1].diff = [from |-> "Inquiry", to |-> "Proposal"]
              /\ (ready /\ l[p].created /\ l'[p] # l[p]) => l'[p].pc # "raised"]_vars

\* The call for Trip T1 has returned, having created the Story of C1.
C15_Witness ==
    \E p \in Procs :
        /\ l[p].pc = "done"
        /\ l[p].kind = "trip"
        /\ l[p].created
        /\ l[p].doc.name = "T1"
        /\ itins = {}
        /\ stories[1].stage = "Proposal"
        /\ Len(events) = 1

\* The stored value of the fact with the key, or None.
FactOf(story, key) ==
    IF FirstRow(story.facts, "key", key) = 0 THEN None
    ELSE story.facts[FirstRow(story.facts, "key", key)].value

\* The Communication is Sent and refers to an Itinerary by its reference
\* fields, and its contact has a Story at Proposal without proposal facts.
SentReferenceAtProposal(comm) ==
    /\ comm.doctype = "Communication"
    /\ comm.sent_or_received = "Sent"
    /\ comm.reference_doctype = "Itinerary"
    /\ Truthy(comm.reference_name)
    /\ Truthy(comm.phone_no)
    /\ Truthy(ContactFromPhone(comm.phone_no))
    /\ StoryNameOf(ContactFromPhone(comm.phone_no)) # 0
    /\ LET story == stories[StoryNameOf(ContactFromPhone(comm.phone_no))]
       IN  /\ story.stage = "Proposal"
           /\ \A i \in DOMAIN story.facts : story.facts[i].key \notin FactKeys \cup {"proposal"}

\* C16: update_from_comm on a Sent Communication whose reference_doctype is
\* "Itinerary" and whose reference_name is set, for a contact whose Story is
\* at Proposal with no proposal fact, goes on to mark_proposal_sent and ends
\* with the Story at Negotiation and the facts proposal.itinerary = the
\* reference_name and proposal.sent_at = the Communication's creation.
C16_SentReferenceMovesToNegotiation ==
    [][\A p \in Procs :
          /\ (Enters(p) /\ SentReferenceAtProposal(l'[p].doc)) =>
                l'[p].pc = "ensure"
          /\ (Steps(p, "ensure") /\ ~l[p].inmps /\ SentReferenceAtProposal(l[p].doc)) =>
                l'[p].inmps
          /\ (Steps(p, "stage") /\ l[p].inmps /\ l[p].doc.reference_doctype = "Itinerary"
                /\ l[p].story.stage = "Proposal") =>
                LET story == stories'[l[p].story.name]
                IN  /\ story.stage = "Negotiation"
                    /\ FactOf(story, "proposal.itinerary") = l[p].doc.reference_name
                    /\ FactOf(story, "proposal.sent_at") = l[p].doc.creation]_vars

\* C17: update_from_comm on a Sent Communication whose contact's Story has a
\* truthy proposal.sent_at does not go on to mark_proposal_sent: the call
\* returns after its ensure_story (line 316) with the facts (proposal.itinerary and
\* proposal.sent_at among them), the stage, the story_version and the event
\* log unchanged, whichever itinerary the Communication names.
C17_AlreadySentChangesNothing ==
    [][\A p \in Procs :
          (/\ Steps(p, "ensure")
           /\ ~l[p].inmps
           /\ l[p].kind = "comm"
           /\ l[p].doc.sent_or_received = "Sent"
           /\ StoryNameOf(l[p].contact) # 0
           /\ Truthy(FactOf(stories[StoryNameOf(l[p].contact)], "proposal.sent_at"))) =>
                /\ ~l'[p].inmps
                /\ l'[p].pc = "done"
                /\ StoreView' = StoreView
                /\ FactOf(stories'[StoryNameOf(l[p].contact)], "proposal.itinerary")
                        = FactOf(stories[StoryNameOf(l[p].contact)], "proposal.itinerary")
                /\ FactOf(stories'[StoryNameOf(l[p].contact)], "proposal.sent_at")
                        = FactOf(stories[StoryNameOf(l[p].contact)], "proposal.sent_at")]_vars

\* A Sent Communication naming another itinerary than the recorded one has
\* returned on a Story whose proposal was recorded by an earlier one.
C17_Witness ==
    \E p \in Procs :
        /\ l[p].pc = "done"
        /\ l[p].kind = "comm"
        /\ l[p].doc.sent_or_received = "Sent"
        /\ ~l[p].inmps
        /\ Truthy(extract_itinerary_ref_from_comm(l[p].doc).ref)
        /\ stories # <<>>
        /\ Truthy(FactOf(stories[1], "proposal.sent_at"))
        /\ FactOf(stories[1], "proposal.itinerary")
                # extract_itinerary_ref_from_comm(l[p].doc).ref
        /\ stories[1].stage = "Negotiation"

\* C18: trip_ready_for_proposal returns true exactly when the destinations
\* are non-empty, and start and end are both set or flex is set and is not
\* the literal "Exact dates", and pax is present and greater than zero.
C18_TripReadyExactlyWhen ==
    \A p \in Procs :
        l[p].kind = "trip_ready_for_proposal" =>
            LET intent == l[p].doc.intent
                destinations_non_empty == intent.destinations # <<>>
                start_and_end_set == /\ intent.dates.start \notin {None, ""}
                                     /\ intent.dates.end \notin {None, ""}
                flex_not_exact == intent.dates.flex \notin {None, "", "Exact dates"}
                pax_positive == Len(intent.pax) = 1 /\ intent.pax[1] >= 1
            IN  l[p].doc.result
                    <=> /\ destinations_non_empty
                        /\ start_and_end_set \/ flex_not_exact
                        /\ pax_positive

\* A call has returned true for an intent without a start date, by its flex
\* that differs from the literal "Exact dates" in case only.
C18_Witness ==
    \E p \in Procs :
        /\ l[p].kind = "trip_ready_for_proposal"
        /\ l[p].pc = "done"
        /\ l[p].doc.result
        /\ l[p].doc.intent.dates.start = None
        /\ l[p].doc.intent.dates.flex = "exact dates"
        /\ l[p].doc.intent.pax = <<1>>

\* C19: for each of the seven current stages and every combination of
\* flags, choose_stage returns the higher-ranked of the current stage and the
\* first-match target: Negotiation if proposal_sent_flag, else Proposal if
\* has_itinerary or trip_ready, else Discovery if has_contact, else Inquiry.
C19_ChooseStageHigherOfCurrentAndTarget ==
    \A p \in Procs :
        (l[p].kind = "choose_stage" /\ l[p].doc.args.current_stage \in StageSet) =>
            LET args == l[p].doc.args
                target == CASE args.proposal_sent_flag -> "Negotiation"
                            [] ~args.proposal_sent_flag
                               /\ (args.has_itinerary \/ args.trip_ready) -> "Proposal"
                            [] ~args.proposal_sent_flag /\ ~args.has_itinerary
                               /\ ~args.trip_ready /\ args.has_contact -> "Discovery"
                            [] OTHER -> "Inquiry"
                result == l[p].doc.result
            IN  /\ result \in {args.current_stage, target}
                /\ STAGE_ORDER(result) >= STAGE_ORDER(args.current_stage)
                /\ STAGE_ORDER(result) >= STAGE_ORDER(target)

\* A call has returned Proposal for the current stage Discovery, on
\* has_itinerary with has_contact set and trip_ready unset.
C19_Witness ==
    \E p \in Procs :
        /\ l[p].kind = "choose_stage"
        /\ l[p].pc = "done"
        /\ l[p].doc.args.current_stage = "Discovery"
        /\ l[p].doc.args.has_contact
        /\ l[p].doc.args.has_itinerary
        /\ ~l[p].doc.args.trip_ready
        /\ ~l[p].doc.args.proposal_sent_flag
        /\ l[p].doc.result = "Proposal"

\* C20: no step of an entry point sets a stage to Booking, Fulfillment or
\* Post-trip: it inserts a Story at another stage and moves no Story from
\* another stage to one of these.  And an entry point that holds a Story read
\* after an outside writer set one of these stages (its copy has the stored
\* stage) leaves that stage, the story_version and the event log unchanged
\* in every step.
C20_LateStagesOnlyFromOutside ==
    [][writer' # "external" =>
          /\ \A i \in DOMAIN stories' :
                stories'[i].stage \in LateStages =>
                    i \in DOMAIN stories /\ stories[i].stage \in LateStages
          /\ \A p \in Procs :
                (/\ l'[p] # l[p]
                 /\ l[p].story.name # 0
                 /\ l[p].story.stage \in LateStages
                 /\ stories[l[p].story.name].stage = l[p].story.stage) =>
                    /\ stories'[l[p].story.name].stage = l[p].story.stage
                    /\ stories'[l[p].story.name].story_version
                            = stories[l[p].story.name].story_version
                    /\ l'[p].pc # "event"
                    /\ events' = events]_vars

\* A Sent Communication has gone through mark_proposal_sent on a Story that
\* the outside writer had set to Booking: the facts are written and the Story
\* is still at Booking, with the version and the one event it had before.
C20_Witness ==
    \E p \in Procs :
        /\ l[p].pc = "done"
        /\ l[p].kind = "comm"
        /\ l[p].inmps
        /\ l[p].story.stage = "Booking"
        /\ stories[1].stage = "Booking"
        /\ stories[1].facts # <<>>
        /\ stories[1].story_version = 2
        /\ Len(events) = 1

\* The first token of the kind in the blob, or None.
TokenOf(blob, kind) ==
    IF \E i \in DOMAIN blob : blob[i].kind = kind
    THEN blob[CHOOSE i \in DOMAIN blob :
                /\ blob[i].kind = kind
                /\ \A j \in 1..(i - 1) : blob[j].kind # kind].ref
    ELSE None

\* C21: extract_itinerary_ref_from_comm returns the first match in a fixed
\* priority.  A reference_doctype "Itinerary" (in any case) with a
\* reference_name gives that name by reference_link, whatever else matches;
\* else the first timeline link to an Itinerary with a name gives it by
\* timeline_link, whatever the texts hold; else the content and then the
\* subject is searched, a path match of a blob winning over a code match of
\* the same blob; else the result is (None, None).  The name and the method
\* returned belong to the same match.
C21_ExtractorPriority ==
    \A p \in Procs :
        l[p].kind = "extract_itinerary_ref_from_comm" =>
            LET comm == l[p].doc.comm
                result == l[p].doc.result
                by_reference == /\ comm.reference_doctype \in {"Itinerary", "itinerary"}
                                /\ comm.reference_name # None
                linked == {i \in DOMAIN comm.timeline_links :
                              /\ comm.timeline_links[i].link_doctype
                                    \in {"Itinerary", "ITINERARY"}
                              /\ comm.timeline_links[i].link_name # None}
                in_content == TokenOf(comm.content, "path") # None
                                \/ TokenOf(comm.content, "code") # None
                BlobResult(blob) ==
                    IF TokenOf(blob, "path") # None
                    THEN [ref |-> TokenOf(blob, "path"), method |-> "content_path"]
                    ELSE IF TokenOf(blob, "code") # None
                    THEN [ref |-> TokenOf(blob, "code"), method |-> "code_pattern"]
                    ELSE [ref |-> None, method |-> None]
            IN  /\ by_reference =>
                    result = [ref |-> comm.reference_name, method |-> "reference_link"]
                /\ (~by_reference /\ linked # {}) =>
                    /\ result.method = "timeline_link"
                    /\ \E i \in linked :
                        /\ result.ref = comm.timeline_links[i].link_name
                        /\ \A j \in linked : i <= j
                /\ (~by_reference /\ linked = {} /\ in_content) =>
                    result = BlobResult(comm.content)
                /\ (~by_reference /\ linked = {} /\ ~in_content) =>
                    result = BlobResult(comm.subject)

\* A call has returned for a Communication that matches by reference, by
\* timeline link, by path and by code at once.
C21_Witness ==
    \E p \in Procs :
        /\ l[p].kind = "extract_itinerary_ref_from_comm"
        /\ l[p].pc = "done"
        /\ l[p].doc.comm.reference_doctype = "itinerary"
        /\ l[p].doc.comm.reference_name = "ITIN-01"
        /\ l[p].doc.comm.timeline_links = ItinLink("ITIN-02")
        /\ Len(l[p].doc.comm.content) = 3
        /\ l[p].doc.comm.subject # <<>>
        /\ l[p].doc.result = [ref |-> "ITIN-01", method |-> "reference_link"]

\* The Stories of a contact, and its events in log order.
StoriesOf(store, contact) == {store[i] : i \in {j \in DOMAIN store : store[j].contact = contact}}

RECURSIVE EventsOf(_, _)
EventsOf(log, contact) ==
    IF log = <<>> THEN <<>>
    ELSE IF Head(log).contact = contact
         THEN <<Head(log)>> \o EventsOf(Tail(log), contact)
         ELSE EventsOf(Tail(log), contact)

\* C22: a step of an invocation that resolved to contact A leaves, for every
\* other contact B, B's Story (stage, story_version, primary_trip, facts,
\* snapshots and the rest of the document) and B's events unchanged, and the
\* Story the invocation holds is a Story of A, in every interleaving of
\* invocations for two contacts.
C22_OtherContactsUntouched ==
    [][\A p \in Procs :
          l'[p] # l[p] =>
              /\ l'[p].story.name # 0 => l'[p].story.contact = l'[p].contact
              /\ \A b \in Contacts :
                    (b # l[p].contact /\ b # l'[p].contact) =>
                        /\ StoriesOf(stories', b) = StoriesOf(stories, b)
                        /\ EventsOf(events', b) = EventsOf(events, b)]_vars

\* Both contacts have a Story that was moved with an event, and an invocation
\* for one contact is in progress while one for the other has returned.
C22_Witness ==
    \E p, q \in Procs :
        /\ l[p].contact = "C1" /\ l[p].pc = "fact2"
        /\ l[q].contact = "C2" /\ l[q].pc = "done"
        /\ Len(stories) = 2
        /\ EventsOf(events, "C1") # <<>>
        /\ EventsOf(events, "C2") # <<>>

\* C23: the step of update_from_business that maintains primary_trip leaves
\* the Story with, as primary_trip, a Trip of the contact whose start date is
\* today or later and no later than that of any other such Trip, or, when no
\* Trip of the contact starts today or later, the contact's most recently
\* created Trip; it saves the Story exactly when that Trip differs from the
\* primary_trip the Story had.
C23_PrimaryTripNearestFutureElseLatest ==
    [][\A p \in Procs :
          Steps(p, "primary") =>
              LET mine == {t \in DOMAIN TripTable : TripTable[t].customer = l[p].contact}
                  future == {t \in mine :
                                /\ TripTable[t].start_date # None
                                /\ DateRank(TripTable[t].start_date) >= DateRank(today)}
                  was == l[p].story.primary_trip
                  chosen == stories'[l[p].story.name].primary_trip
              IN  /\ future # {} =>
                        \E t \in future :
                            /\ TripTable[t].name = chosen
                            /\ \A u \in future : DateRank(TripTable[t].start_date)
                                                    <= DateRank(TripTable[u].start_date)
                  /\ future = {} =>
                        \E t \in mine :
                            /\ TripTable[t].name = chosen
                            /\ \A u \in mine : TripTable[t].creation >= TripTable[u].creation
                  /\ l'[p].story.primary_trip = chosen
                  /\ (writer' = p) <=> (chosen # was)
                  /\ chosen = was => stories' = stories
                  /\ events' = events]_vars

\* No Trip of the contact starts today or later, and the notification of an
\* earlier Trip has returned with the most recently created Trip, which has
\* no start date, as the Story's primary trip.
C23_Witness ==
    \E p \in Procs :
        /\ l[p].pc = "done"
        /\ l[p].kind = "trip"
        /\ today = "2025-06-20"
        /\ stories[1].primary_trip = "T7"
        /\ l[p].doc.name = "T5"

\* C24: update_from_comm on a Received Communication takes trip_ready and
\* has_itinerary from the Story's primary trip alone (its readiness, the
\* Itineraries on it), and both are false when the Story has none; with no
\* primary trip and no proposal fact a Story at Inquiry moves to Discovery and
\* a Story at another stage is unchanged.  A stage change on this path is
\* followed by exactly one event, of type communication_created, and a call
\* that changes no stage appends no event.
C24_ReceivedUsesPrimaryTripOnly ==
    [][\A p \in Procs :
          LET received == l[p].kind = "comm" /\ l[p].doc.sent_or_received = "Received"
              story == l[p].story
              primary == story.primary_trip
              args == CurrentStageCall(l[p])
          IN  /\ (received /\ Steps(p, "stage")) =>
                    /\ primary = None => (~args.trip_ready /\ ~args.has_itinerary)
                    /\ primary # None =>
                            /\ args.trip_ready = TripReady(primary)
                            /\ args.has_itinerary = (\E i \in itins : i.trip = primary)
                    /\ (primary = None /\ FactOf(story, "proposal.sent_at") = None) =>
                            /\ story.stage = "Inquiry" =>
                                    /\ stories'[story.name].stage = "Discovery"
                                    /\ l'[p].pc = "event"
                            /\ story.stage # "Inquiry" =>
                                    /\ stories' = stories
                                    /\ l'[p].pc = "done"
                    /\ events' = events
                    /\ l'[p].pc \in {"event", "done"}
                    /\ l'[p].pc = "event" <=> stories'[story.name].stage # stories[story.name].stage
              /\ (received /\ Steps(p, "event")) =>
                    /\ Len(events') = Len(events) + 1
                    /\ events'[Len(events')].event_type = "communication_created"
                    /\ events'[Len(events')].contact = l[p].contact
                    /\ l'[p].pc = "done"
              /\ (received /\ Steps(p, "done")) => events' = events]_vars

\* A Received Communication has returned without a change on a Story at
\* Proposal that has no primary trip, while an Itinerary of the contact is in
\* the store.
C24_Witness ==
    \E p \in Procs :
        /\ l[p].pc = "done"
        /\ l[p].kind = "comm"
        /\ l[p].doc.sent_or_received = "Received"
        /\ ~l[p].repeat
        /\ stories # <<>>
        /\ stories[1].primary_trip = None
        /\ stories[1].stage = "Proposal"
        /\ itins # {}
        /\ Len(events) = 1

\* C25: update_from_comm on an existing Story writes nothing when the
\* Communication is Sent and carries no itinerary reference, or when its
\* direction is neither "Sent" nor "Received": it returns after its
\* ensure_story with every Story (stage, story_version, primary_trip, facts,
\* snapshots) and the event log unchanged.
C25_NoReferenceOrOtherDirectionWritesNothing ==
    [][\A p \in Procs :
          (/\ Steps(p, "ensure")
           /\ l[p].kind = "comm"
           /\ StoryNameOf(l[p].contact) # 0
           /\ \/ /\ l[p].doc.sent_or_received = "Sent"
                 /\ extract_itinerary_ref_from_comm(l[p].doc) = NoRef
              \/ l[p].doc.sent_or_received \notin {"Sent", "Received"}) =>
                /\ l'[p].pc = "done"
                /\ stories' = stories
                /\ events' = events]_vars

\* A Communication of another direction that links an Itinerary has returned
\* on a Story at Discovery that it did not create.
C25_Witness ==
    \E p \in Procs :
        /\ l[p].pc = "done"
        /\ l[p].kind = "comm"
        /\ l[p].doc.sent_or_received = ""
        /\ l[p].doc.timeline_links # <<>>
        /\ ~l[p].created
        /\ l[p].story.name = 1
        /\ stories[1].stage = "Discovery"
        /\ stories[1].facts = <<>>

\* C26: a failed store write (Story insert, Story save, Story Event insert)
\* writes nothing and reaches the caller of the entry point: the invocation is
\* at its raise, it does not run the write again, it makes no later store
\* write, and its only further step is to leave the entry point.
C26_WriteFailurePropagatesWithoutRetry ==
    [][\A p \in Procs :
          /\ (~l[p].failed /\ l'[p].failed) =>
                /\ WriteIsNext(l[p])
                /\ l'[p].pc = "raised"
                /\ stories' = stories
                /\ events' = events
          /\ l[p].failed =>
                /\ l[p].pc = "raised"
                /\ writer' # p
                /\ l'[p] \in {l[p], IdleLocal}]_vars

\* mark_proposal_sent has raised at the save of its second fact: the stored
\* Story holds proposal.itinerary and no proposal.sent_at.
C26_Witness ==
    \E p \in Procs :
        /\ l[p].failed
        /\ l[p].pc = "raised"
        /\ l[p].inmps
        /\ stories # <<>>
        /\ FactOf(stories[1], "proposal.itinerary") = "ITIN-01"
        /\ FactOf(stories[1], "proposal.sent_at") = None

\* C27: no step removes a Fact row: a key that has a row in a persisted Story
\* has a row in that Story in every later state, also when another invocation
\* for the same contact saves a copy of the Story that it loaded earlier.
FactKeysOf(story) == {story.facts[i].key : i \in 1..Len(story.facts)}

C27_FactRowsNeverRemoved ==
    [][\A i \in 1..Len(stories) :
          /\ i <= Len(stories')
          /\ FactKeysOf(stories[i]) \subseteq FactKeysOf(stories'[i])]_vars

\* C28: when mark_proposal_sent reaches its stage recomputation the Story
\* holds proposal.itinerary and proposal.sent_at with source
\* Communication/comm_name; a Story at Inquiry, Discovery or Proposal is then
\* saved at Negotiation with story_version one higher, and exactly one event,
\* from the old stage to Negotiation, is appended before the call completes; a
\* Story at Negotiation or later is left as it is.  When the call has
\* completed the stored Story holds both facts and its rank is at least
\* Negotiation.
SourcedFrom(story, key, comm_name) ==
    LET i == FirstRow(story.facts, "key", key)
    IN  /\ i # 0
        /\ story.facts[i].source_doc_type = "Communication"
        /\ story.facts[i].source_doc = comm_name

HoldsProposalFacts(story, comm) ==
    /\ SourcedFrom(story, "proposal.itinerary", comm.name)
    /\ SourcedFrom(story, "proposal.sent_at", comm.name)
    /\ FactOf(story, "proposal.itinerary") = extract_itinerary_ref_from_comm(comm).ref
    /\ FactOf(story, "proposal.sent_at") = Str(comm.creation)

C28_ProposalSentReachesNegotiation ==
    [][\A p \in Procs :
          /\ (Steps(p, "stage") /\ l[p].inmps) =>
                LET n == l[p].story.name
                IN  /\ HoldsProposalFacts(stories[n], l[p].doc)
                    /\ IF Rank(stories[n].stage) < STAGE_ORDER("Negotiation")
                       THEN /\ stories'[n].stage = "Negotiation"
                            /\ stories'[n].story_version = stories[n].story_version + 1
                            /\ stories'[n].itineraries = stories[n].itineraries
                            /\ stories'[n].primary_trip = stories[n].primary_trip
                            /\ events' = events
                            /\ l'[p].pc = "event"
                       ELSE /\ stories' = stories
                            /\ events' = events
                            /\ l'[p].pc = "done"
          /\ (Steps(p, "event") /\ l[p].inmps) =>
                /\ stories' = stories
                /\ Len(events') = Len(events) + 1
                /\ events'[Len(events')].diff.to = "Negotiation"
                /\ events'[Len(events')].diff.from = l[p].old_stage
                /\ l'[p].pc = "done"
          /\ (l[p].pc = "done" /\ l[p].inmps) =>
                /\ HoldsProposalFacts(stories[l[p].story.name], l[p].doc)
                /\ Rank(stories[l[p].story.name].stage) >= STAGE_ORDER("Negotiation")]_vars

\* mark_proposal_sent has completed on a Story that was at Proposal with a
\* primary trip and an itinerary snapshot: one event Proposal -> Negotiation
\* is the last of the log.
C28_Witness ==
    \E p \in Procs :
        /\ l[p].pc = "done"
        /\ l[p].inmps
        /\ stories # <<>>
        /\ stories[1].stage = "Negotiation"
        /\ Truthy(stories[1].primary_trip)
        /\ stories[1].itineraries # <<>>
        /\ events # <<>>
        /\ events[Len(events)].diff = [from |-> "Proposal", to |-> "Negotiation"]
        /\ events[Len(events)].source_ref = l[p].doc.name

\* C29: for a set of Trip, Itinerary and Communication records of one
\* contact without a Story, once one notification per record has been
\* processed, one invocation at a time, the stage of the contact's Story is
\* the same in whatever order they were processed: it is the stage the set
\* itself determines.
StageOfRecords(all) ==
    IF \E d \in all :
            /\ d.doctype = "Communication"
            /\ d.sent_or_received = "Sent"
            /\ Truthy(extract_itinerary_ref_from_comm(d).ref)
    THEN "Negotiation"
    ELSE IF \E d \in all :
            \/ d.doctype = "Itinerary"
            \/ d.doctype = "Trip" /\ trip_ready_for_proposal(intent_from_trip(d))
    THEN "Proposal"
    ELSE "Discovery"

AllProcessed ==
    /\ inbox.all # {}
    /\ inbox.todo = {}
    /\ \A p \in Procs : l[p].pc = "idle"

C29_FinalStageIndependentOfOrder ==
    AllProcessed =>
        /\ Len(stories) = 1
        /\ stories[1].stage = StageOfRecords(inbox.all)

\* The four Trips, the Itinerary and the Received Communication of contact C2
\* have all been processed, the Communication first: the Story is at Proposal
\* and its first event is the Communication's.
C29_Witness ==
    /\ AllProcessed
    /\ Cardinality(inbox.all) = 6
    /\ stories[1].contact = "C2"
    /\ stories[1].stage = "Proposal"
    /\ events[1].source_doctype = "Communication"

\* C30: whenever no entry point is in progress, a Story whose facts hold a
\* truthy proposal.sent_at has a stage of rank at least Negotiation, also
\* after a mark_proposal_sent that failed between its fact writes and its
\* stage update and a second processing of the same Sent Communication.
C30_SentAtImpliesNegotiation ==
    (\A p \in Procs : l[p].pc = "idle") =>
        \A i \in 1..Len(stories) :
            Truthy(FactOf(stories[i], "proposal.sent_at")) =>
                Rank(stories[i].stage) >= STAGE_ORDER("Negotiation")

\* C31: with failure-free invocations one at a time on Stories created by
\* ensure_story, a Story's story_version is 1 plus the number of Story Events
\* recorded for its contact whenever no invocation stands between the save of
\* a new stage and the insert of its event; there it is one more.
EventPending(story) ==
    IF \E p \in Procs : l[p].pc = "event" /\ l[p].story.name = story.name
    THEN 1 ELSE 0

C31_VersionCountsEvents ==
    \A i \in 1..Len(stories) :
        stories[i].story_version =
            1 + Len(EventsOf(events, stories[i].contact)) + EventPending(stories[i])

\* No invocation is in progress and the Story, at Negotiation, has
\* story_version 4 after three stage changes.
C31_Witness ==
    /\ \A p \in Procs : l[p].pc = "idle"
    /\ stories # <<>>
    /\ stories[1].stage = "Negotiation"
    /\ stories[1].story_version = 4
    /\ Len(EventsOf(events, stories[1].contact)) = 3

\* C32: in the event log of a contact written by invocations one at a time,
\* every event goes to a stage of higher rank than the one it comes from, the
\* first event comes from Inquiry, every later event comes from the stage the
\* one before it went to, and so there are at most three events.
C32_EventLogIsRisingChain ==
    \A contact \in Contacts :
        LET log == EventsOf(events, contact)
        IN  /\ \A k \in 1..Len(log) :
                /\ Rank(log[k].diff.to) > Rank(log[k].diff.from)
                /\ log[k].diff.from = IF k = 1 THEN "Inquiry" ELSE log[k - 1].diff.to
            /\ Len(log) <= 3

\* The log of contact C1 holds Inquiry -> Discovery, Discovery -> Proposal and
\* Proposal -> Negotiation.
C32_Witness ==
    LET log == EventsOf(events, "C1")
    IN  /\ Len(log) = 3
        /\ log[1].diff = [from |-> "Inquiry", to |-> "Discovery"]
        /\ log[2].diff = [from |-> "Discovery", to |-> "Proposal"]
        /\ log[3].diff = [from |-> "Proposal", to |-> "Negotiation"]

\* C33: a Story Event is in the log only when the Story carrying its new
\* stage has been saved: with invocations one at a time, also after a store
\* write has failed, the contact of every event has a Story whose persisted
\* stage has at least the rank of the stage the event goes to.
C33_EventOnlyAfterStageSaved ==
    \A k \in 1..Len(events) :
        /\ StoryNameOf(events[k].contact) # 0
        /\ Rank(stories[StoryNameOf(events[k].contact)].stage)
                >= Rank(events[k].diff.to)

\* The insert of the event Discovery -> Proposal has failed and the caller is
\* about to get the exception: the Story is saved at Proposal and the log ends
\* with the event Inquiry -> Discovery.
C33_Witness ==
    \E p \in Procs :
        /\ l[p].failed
        /\ l[p].pc = "raised"
        /\ stories # <<>>
        /\ stories[1].stage = "Proposal"
        /\ Len(events) = 1
        /\ events[1].diff.to = "Discovery"

\* C34: when update_from_business has completed for an Itinerary that is in
\* the store and is linked to a Trip with a customer, the Story of that
\* contact has a stage of rank at least Proposal, whether or not the Trip is
\* ready and whatever the Itinerary's status.
C34_ItineraryReachesProposal ==
    \A p \in Procs :
        (/\ l[p].pc = "done"
         /\ l[p].kind = "itinerary"
         /\ l[p].doc \in itins
         /\ Truthy(l[p].doc.trip)
         /\ Truthy(GetTrip(l[p].doc.trip).customer)) =>
            LET n == StoryNameOf(GetTrip(l[p].doc.trip).customer)
            IN  /\ n # 0
                /\ Rank(stories[n].stage) >= STAGE_ORDER("Proposal")

\* The notification of a Draft Itinerary on the unready Trip T2 has completed
\* on a Story that a Received Communication had taken to Discovery: the Story
\* is at Proposal.
C34_Witness ==
    \E p \in Procs :
        /\ l[p].pc = "done"
        /\ l[p].kind = "itinerary"
        /\ l[p].doc.trip = "T2"
        /\ l[p].doc.status = "Draft"
        /\ ~TripReady("T2")
        /\ stories # <<>>
        /\ stories[1].stage = "Proposal"
        /\ Len(events) = 2
        /\ events[2].diff = [from |-> "Discovery", to |-> "Proposal"]
        /\ events[2].source_ref = l[p].doc.name

\* C35: choose_stage does not depend on itinerary_statuses: two calls that
\* agree on the other five arguments return the same stage, and the stage an
\* Itinerary notification saves is the one it would save for any other list
\* of statuses of the Itineraries found.
C35_StatusesDoNotDecideStage ==
    [][\A p \in Procs :
          /\ l'[p].kind = "choose_stage_pair" =>
                l'[p].doc.result = l'[p].doc.other_result
          /\ (Steps(p, "stage") /\ l[p].kind = "itinerary") =>
                \A statuses \in StatusLists :
                    LET args == [CurrentStageCall(l[p]) EXCEPT !.itinerary_statuses = statuses]
                    IN  stories'[l[p].story.name].stage
                            = IF StageChanges(l[p].story, args)
                              THEN WithNewStage(l[p].story, args).stage
                              ELSE stories[l[p].story.name].stage]_vars

\* Two calls from Discovery with has_itinerary, one with the statuses
\* <<"Draft">> and one with <<"Approved">>, have both returned Proposal.
C35_Witness ==
    \E p \in Procs :
        /\ l[p].kind = "choose_stage_pair"
        /\ l[p].doc.args.current_stage = "Discovery"
        /\ l[p].doc.args.has_itinerary
        /\ ~l[p].doc.args.proposal_sent_flag
        /\ l[p].doc.args.itinerary_statuses = <<"Draft">>
        /\ l[p].doc.other_statuses = <<"Approved">>
        /\ l[p].doc.result = "Proposal"
        /\ l[p].doc.other_result = "Proposal"

\* C36: story_facts_to_dict processes the rows in ascending last_seen_at
\* and the later-processed row wins a collision outright: the leaves of a row
\* are in the result exactly when no row processed later has the same key, a
\* strict dotted prefix of it or an extension of it.  So a later row for
\* proposal leaves its own value there, a later row for proposal.sent_at
\* leaves a mapping there, and rows for proposal.sent_at and
\* proposal.itinerary both stay.
ProcessedLater(rows, j, i) ==
    \/ rows[j].last_seen_at > rows[i].last_seen_at
    \/ rows[j].last_seen_at = rows[i].last_seen_at /\ j > i

Collides(rows, j, q) ==
    /\ rows[j].key # ""
    /\ \/ IsPrefix(KeyParts(rows[j].key), q)
       \/ IsPrefix(q, KeyParts(rows[j].key))

LeavesOfRow(row) ==
    IF row.key = "" THEN {}
    ELSE IF row.value = JsonObjectText
    THEN {<<KeyParts(row.key) \o <<"sent_at">>, "x">>}
    ELSE {<<KeyParts(row.key), row.value>>}

SurvivingLeaves(rows) ==
    {leaf \in UNION {LeavesOfRow(rows[i]) : i \in 1..Len(rows)} :
        \E i \in 1..Len(rows) :
            /\ leaf \in LeavesOfRow(rows[i])
            /\ \A j \in 1..Len(rows) :
                    ProcessedLater(rows, j, i) => ~Collides(rows, j, leaf[1])}

C36_LaterRowWinsOutright ==
    \A p \in Procs :
        l[p].kind = "story_facts_to_dict" =>
            LET result == l[p].doc.result
            IN  {<<q, result[q]>> : q \in DOMAIN result} = SurvivingLeaves(l[p].doc.rows)

\* Rows for proposal.sent_at, proposal and proposal.itinerary, the row for
\* proposal with the lowest last_seen_at though second in the table: the
\* result maps proposal to a mapping that holds both sent_at and itinerary.
C36_Witness ==
    \E p \in Procs :
        /\ l[p].kind = "story_facts_to_dict"
        /\ Len(l[p].doc.rows) = 3
        /\ l[p].doc.rows[1] = [key |-> "proposal.sent_at", value |-> "x", last_seen_at |-> 1]
        /\ l[p].doc.rows[2].key = "proposal"
        /\ l[p].doc.rows[2].value = "x"
        /\ l[p].doc.rows[2].last_seen_at = 0
        /\ l[p].doc.rows[3].key = "proposal.itinerary"
        /\ DOMAIN l[p].doc.result = {<<"proposal", "sent_at">>, <<"proposal", "itinerary">>}

\* C37: for every collection of Fact rows, proposal_sent on the mapping of
\* story_facts_to_dict returns true exactly when the mapping holds a truthy
\* value at proposal.sent_at and returns false, without raising, otherwise,
\* also when a row with key "proposal" holds a scalar.
C37_ProposalSentTotal ==
    \A p \in Procs :
        l[p].kind = "proposal_sent" =>
            LET facts == l[p].doc.facts
                sent_at == <<"proposal", "sent_at">>
            IN  /\ l[p].pc # "raised"
                /\ l[p].doc.result =
                        IF sent_at \in DOMAIN facts /\ Truthy(facts[sent_at])
                        THEN "True" ELSE "False"

=============================================================================
